---- MODULE Spec2Model ----
(***************************************************************************)
(* Text-to-SQL agent: the LangGraph pipeline of agents/graph.py and its    *)
(* nodes (retrieval, sql_generator, validator, increment_retry, executor,  *)
(* tool_executor, responder), run once per request over one AgentState.    *)
(* External collaborators (LLM, vector store, SQL parser, query engine)    *)
(* are inputs chosen nondeterministically from small sets.                 *)
(***************************************************************************)
EXTENDS Integers, Sequences, FiniteSets, TLC

(* ---------------------------------------------------------------- bounds *)
\* Cap on the number of graph steps of one request explored by the model.
MaxSteps == 11
\* Largest total the COUNT query reports in the model.
MaxCount == 2
\* Most rows one page fetch returns in the model.
MaxRows == 2

(* ------------------------------------------------------ program constants *)
MAX_RETRIES == 2
MAX_EXPLORATIONS == 3

\* Optional[int] fields: None is modelled as -1.
NoneInt == -1
\* Optional[str] fields: None is modelled as the string "None".
NoneStr == "None"

(* ------------------------------------------------- abstract SQL universe *)
\* What the regular expressions and sqlglot see in each candidate string.
\*   kw     : prohibited keyword found in the comment-stripped text ("" none)
\*   parse  : "SELECT", "WITH", "OTHER" statement kind, or "ERROR" (ParseError)
\*   tables : table names sqlglot extracts
\*   star   : "SELECT *" present;  limit : "LIMIT" present
SqlInfo(sql) ==
    CASE sql = "SELECT * FROM aws_ec2 LIMIT 10" ->
           [kw |-> "", parse |-> "SELECT", tables |-> {"aws_ec2"}, star |-> TRUE, limit |-> TRUE]
      [] sql = "SELECT id FROM users" ->
           [kw |-> "", parse |-> "SELECT", tables |-> {"users"}, star |-> FALSE, limit |-> FALSE]
      [] sql = "DELETE FROM aws_ec2" ->
           [kw |-> "DELETE", parse |-> "OTHER", tables |-> {"aws_ec2"}, star |-> FALSE, limit |-> FALSE]
      [] sql = "SELEC id FROM aws_ec2" ->
           [kw |-> "", parse |-> "ERROR", tables |-> {}, star |-> FALSE, limit |-> FALSE]
      [] OTHER ->
           [kw |-> "", parse |-> "ERROR", tables |-> {}, star |-> FALSE, limit |-> FALSE]

SqlStrings == {"SELECT * FROM aws_ec2 LIMIT 10", "SELECT id FROM users",
               "DELETE FROM aws_ec2", "SELEC id FROM aws_ec2"}

\* Tables the schema catalog (vector store database_info) knows.
KnownTables == {"aws_ec2"}

(* ------------------------------------------------------------ validation *)
validate_sql(sql) ==
    LET info == SqlInfo(sql)
        kwErrors == IF info.kw /= ""
                    THEN <<"read-only: " \o info.kw, "You can only query (SELECT)">>
                    ELSE <<>>
        parseErrors == CASE info.parse = "ERROR" -> <<"SQL syntax error">>
                         [] info.parse = "OTHER" -> <<"Only SELECT and WITH (CTE) statements are allowed">>
                         [] OTHER -> <<>>
        warnings == (IF info.star THEN <<"Using SELECT * is not recommended">> ELSE <<>>)
                    \o (IF ~info.limit THEN <<"Query has no LIMIT clause">> ELSE <<>>)
    IN  IF kwErrors /= <<>>
        THEN [is_valid |-> FALSE, errors |-> kwErrors, warnings |-> <<>>]
        ELSE IF parseErrors /= <<>>
        THEN [is_valid |-> FALSE, errors |-> parseErrors, warnings |-> <<>>]
        ELSE [is_valid |-> TRUE, errors |-> <<>>, warnings |-> warnings]

\* The user-facing sentence validate_tables_exist builds for the missing
\* tables; with a single missing table it quotes that table's name.
table_error_message(missing) ==
    CASE missing = {"users"} ->
           "The requested resource type 'users' does not exist in our database"
      [] OTHER -> "The requested resource types do not exist in our database"

\* catalog: "ok" when vector_store.list_database_info answers, "raises" when
\* it throws; the function's blanket except then reports the tables as valid.
validate_tables_exist(sql, catalog) ==
    LET info == SqlInfo(sql)
        tables_in_query == IF info.parse = "ERROR" THEN {} ELSE info.tables
        missing == tables_in_query \ KnownTables
    IN  IF info.parse = "ERROR" \/ tables_in_query = {}
        THEN [tables_valid |-> TRUE, missing |-> {}, error |-> NoneStr]
        ELSE IF catalog = "raises"
        THEN [tables_valid |-> TRUE, missing |-> {}, error |-> NoneStr]
        ELSE IF missing /= {}
        THEN [tables_valid |-> FALSE, missing |-> missing,
              error |-> table_error_message(missing)]
        ELSE [tables_valid |-> TRUE, missing |-> {}, error |-> NoneStr]

(* ----------------------------------------------------------------- state *)
VARIABLES
    state,       \* the AgentState of the request in flight
    pc,          \* node the graph runs next; "END" after responder, "error" after an uncaught exception
    steps,       \* graph steps taken so far
    prev,        \* node that ran last ("START" before the first)
    gen_count,   \* sql_generator invocations of this request
    only_invalid,\* every generation so far was plain SQL that failed validation
    engine_log,  \* SQL strings handed to the query engine (count query or page fetch)
    tool_loops,  \* times the tool_executor -> sql_generator edge was taken
    retry_loops, \* times the increment_retry -> sql_generator edge was taken
    responder_runs, \* completed responder runs
    tool_raised, \* the tool handler invoked by the last tool_executor run raised
    fetch_call,  \* <<[offset, limit]>> of the last paginated fetch (<<>> before any)
    engine_script, \* catalog and engine answers fixed in advance (path comparison only)
    cache,       \* QueryCache._cache: token -> [sql, created_at, session_id]
    clock,       \* time.time(), in whole seconds
    tokens_issued, \* tokens drawn from secrets.token_urlsafe so far
    store_log,   \* every completed store call: [token, sql, session_id, created_at]
    handlers,    \* the cache call each concurrent request handler is in
    lock,        \* handler holding QueryCache._lock ("none": free)
    get_result,  \* <<[token, at, entry]>> of the last completed get (<<>> before any)
    csv_sent,    \* queries download_csv handed to the database
    csv_reply,   \* HTTP status of the last CSV download (None before any)
    streaming,   \* the request is served by stream_query (else by query)
    events,      \* server-sent events of the streamed request, in order
    validations, \* validator runs so far, in order: [sql, is_valid, errors, special]
    sessions,    \* SessionManager._sessions: session_id -> session record
    session_log  \* SessionManager calls so far, in order: [op, id, result]

vars == <<state, pc, steps, prev, gen_count, only_invalid, engine_log, tool_loops,
          retry_loops, responder_runs, tool_raised, fetch_call, engine_script,
          cache, clock, tokens_issued, store_log, handlers, lock, get_result,
          csv_sent, csv_reply, streaming, events, validations, sessions, session_log>>

(* ------------------------------------------------------ query-token cache *)
\* QueryCache(ttl_seconds, max_entries), configured with a short lifetime and a
\* small capacity so that expiry and a full cache both occur.
ttl_seconds == 1
max_entries == 1

\* session_id of the request in flight.
RequestSession == "session-1"

\* Mutant: every draw returns the same token.
token_urlsafe_repeats == "tok1"

\* secrets.token_urlsafe(32): a token no earlier draw returned (a collision of
\* two draws of 256 random bits is left out).
token_urlsafe ==
    CASE tokens_issued = 0 -> "tok1"
      [] tokens_issued = 1 -> "tok2"
      [] tokens_issued = 2 -> "tok3"
      [] OTHER -> "tok" \o ToString(tokens_issued + 1)

\* Mutant: an entry expires as soon as its age reaches the TTL.
is_expired_at_ttl(entry, now) == now - entry.created_at >= ttl_seconds

\* The expiry test of get and _cleanup_expired.
is_expired(entry, now) == now - entry.created_at > ttl_seconds

EmptyCache == [t \in {} |-> NoneStr]

\* _cleanup_expired: drops the expired entries, and only those.
cleanup_expired(c, now) == [t \in {k \in DOMAIN c : ~is_expired(c[k], now)} |-> c[t]]

\* self._cache[token] = entry
cache_put(c, token, entry) ==
    [t \in DOMAIN c \cup {token} |-> IF t = token THEN entry ELSE c[t]]

\* The cache after store(sql, session_id) wrote under token at time now.
store(c, token, sql, session_id, now) ==
    LET cleaned == IF Cardinality(DOMAIN c) >= max_entries
                   THEN cleanup_expired(c, now) ELSE c
    IN  cache_put(cleaned, token,
                  [sql |-> sql, created_at |-> now, session_id |-> session_id])

\* The None that get returns.
NoEntry == [sql |-> NoneStr, created_at |-> NoneInt, session_id |-> NoneStr]

\* What get(token) returns at time now.
get(c, token, now) ==
    IF token \notin DOMAIN c THEN NoEntry
    ELSE IF is_expired(c[token], now) THEN NoEntry
    ELSE c[token]

\* The cache after get(token): an expired entry is deleted.
cache_after_get(c, token, now) ==
    IF token \in DOMAIN c /\ is_expired(c[token], now)
    THEN [t \in DOMAIN c \ {token} |-> c[t]]
    ELSE c

\* Record of a completed store call.
store_record(token, sql, session_id, now) ==
    [token |-> token, sql |-> sql, session_id |-> session_id, created_at |-> now]

Handlers == {"h1", "h2"}
NoHandler == "none"
Idle == [op |-> "idle", token |-> NoneStr, sql |-> NoneStr, session_id |-> NoneStr]

\* The cache, the CSV endpoint and the event stream before any request.
ServiceInit ==
    /\ cache = EmptyCache
    /\ clock = 0
    /\ tokens_issued = 0
    /\ store_log = {}
    /\ handlers = [h \in Handlers |-> Idle]
    /\ lock = NoHandler
    /\ get_result = <<>>
    /\ csv_sent = {}
    /\ csv_reply = NoneInt
    /\ events = <<>>
    /\ validations = <<>>
    /\ sessions = [id \in {} |-> NoneStr]
    /\ session_log = <<>>

CacheFrame == UNCHANGED <<cache, tokens_issued, store_log>>
IdleFrame == UNCHANGED <<clock, handlers, lock, get_result, csv_sent, csv_reply, streaming,
                         validations, sessions, session_log>>

\* query_cache.store as a node of the request in flight calls it on success
\* (nothing else holds the lock while a single request runs).
NodeStore(stores, sql) ==
    IF stores
    THEN /\ cache' = store(cache, token_urlsafe, sql, RequestSession, clock)
         /\ tokens_issued' = tokens_issued + 1
         /\ store_log' = store_log \cup
                             {store_record(token_urlsafe, sql, RequestSession, clock)}
    ELSE CacheFrame

(* ------------------------------------------------------- streamed events *)
Event(type, step) == [type |-> type, step |-> step, content |-> NoneStr]

\* Custom chunks a node hands to the stream writer when it starts.
writer_chunks(node) ==
    IF node \in {"retrieval", "validator", "executor", "tool_executor"}
    THEN <<[type |-> "step_started", step |-> node, content |-> NoneStr]>>
    ELSE <<>>

\* stream_query on the custom chunks: step_started and token chunks become
\* events, any other chunk is dropped.
custom_events(chunks) ==
    LET kept == SelectSeq(chunks, LAMBDA c : c.type \in {"step_started", "token"})
    IN  [i \in 1..Len(kept) |->
            IF kept[i].type = "step_started"
            THEN Event("step_started", kept[i].step)
            ELSE [type |-> "token", step |-> NoneStr, content |-> kept[i].content]]

\* stream_query on the updates chunk of a finished node.
update_events(node, old, new) ==
    <<Event("step_completed", node)>> \o
    (CASE node = "retrieval" -> <<Event("retrieval_complete", NoneStr)>>
       [] node = "sql_generator" -> <<Event("sql_generated", NoneStr)>>
       [] node = "validator" -> <<Event("validation_complete", NoneStr)>>
       [] node = "executor" ->
            IF new.executed THEN <<Event("execution_complete", NoneStr)>> ELSE <<>>
       [] node = "tool_executor" ->
            [i \in 1..(Len(new.tool_results) - Len(old.tool_results)) |->
                Event("tool_execution_complete", NoneStr)]
       [] OTHER -> <<>>)

\* Events of a node that ran to completion: stream_query turns the chunks of
\* graph.astream into events; under graph.ainvoke nothing is emitted.
StreamNode(node, old, new) ==
    IF streaming
    THEN events' = events \o custom_events(writer_chunks(node))
                          \o update_events(node, old, new)
    ELSE UNCHANGED events

\* Events of a node that raised: the exception ends the graph stream and
\* stream_query reports it.
StreamFailure(node) ==
    IF streaming
    THEN events' = events \o custom_events(writer_chunks(node))
                          \o <<Event("error", NoneStr)>>
    ELSE UNCHANGED events

\* Script value while no answers are fixed in advance.
NoScript == <<>>

\* The paginated fetch a node made, if any, replaces the last one recorded.
last_fetch(old, made) == IF made = <<>> THEN old ELSE made

create_initial_state(page, page_size) ==
    [ messages |-> <<>>,
      generated_sql |-> NoneStr,
      sql_explanation |-> NoneStr,
      special_response_type |-> NoneStr,
      is_valid |-> FALSE,
      validation_errors |-> <<>>,
      validation_warnings |-> <<>>,
      executed |-> FALSE,
      results |-> NoneInt,
      row_count |-> NoneInt,
      columns |-> NoneStr,
      execution_error |-> NoneStr,
      natural_language_response |-> NoneStr,
      retry_count |-> 0,
      page |-> page,
      page_size |-> IF page_size < 500 THEN page_size ELSE 500,
      total_count |-> NoneInt,
      has_more_results |-> FALSE,
      csv_available |-> FALSE,
      csv_exceeds_limit |-> FALSE,
      query_token |-> NoneStr,
      tool_calls |-> <<>>,
      tool_results |-> <<>>,
      pending_tool_call |-> <<>>,
      exploration_queries |-> <<>>,
      exploration_count |-> 0,
      discovered_values |-> {} ]

\* (page, page_size) of the requests explored (QueryRequest: page >= 1,
\* 1 <= page_size <= 500).
PageRequests == {<<1, 2>>}

\* Requests of the CSV exploration: a first and a later page.
CsvPageRequests == {<<1, 2>>, <<2, 1>>}

\* A request as either handler starts it.
RequestInit ==
    /\ \E rq \in PageRequests : state = create_initial_state(rq[1], rq[2])
    /\ pc = "retrieval"
    /\ steps = 0
    /\ prev = "START"
    /\ gen_count = 0
    /\ only_invalid = TRUE
    /\ engine_log = {}
    /\ tool_loops = 0
    /\ retry_loops = 0
    /\ responder_runs = 0
    /\ tool_raised = FALSE
    /\ fetch_call = <<>>
    /\ engine_script = NoScript
    /\ ServiceInit

\* A request served by query, which runs the graph with ainvoke.
Init == RequestInit /\ streaming = FALSE

(* --------------------------------------------------------------- routing *)
\* Mutant: the special-response short-circuit is forgotten.
should_validate_or_respond_no_special(s) ==
    IF s.pending_tool_call /= <<>> THEN "tool_executor" ELSE "validator"

should_validate_or_respond(s) ==
    IF s.pending_tool_call /= <<>> THEN "tool_executor"
    ELSE IF s.special_response_type \in {"OUT_OF_SCOPE", "READ_ONLY"} THEN "responder"
    ELSE "validator"

should_execute(s) ==
    IF s.is_valid THEN "executor" ELSE "responder"

\* Edge map of the validator's conditional edges: should_execute's "responder"
\* answer leads to the increment_retry node.
validator_edge(answer) ==
    IF answer = "executor" THEN "executor" ELSE "increment_retry"

\* Mutant: the retry bound is forgotten.
should_retry_unbounded(s) ==
    IF s.special_response_type \in {"OUT_OF_SCOPE", "READ_ONLY", "RESOURCE_NOT_FOUND"}
    THEN "responder"
    ELSE IF ~s.is_valid THEN "sql_generator"
    ELSE "responder"

\* Mutant: RESOURCE_NOT_FOUND is not treated as non-retryable.
should_retry_retries_not_found(s) ==
    IF s.special_response_type \in {"OUT_OF_SCOPE", "READ_ONLY"}
    THEN "responder"
    ELSE IF ~s.is_valid /\ s.retry_count < MAX_RETRIES THEN "sql_generator"
    ELSE "responder"

should_retry(s) ==
    IF s.special_response_type \in {"OUT_OF_SCOPE", "READ_ONLY", "RESOURCE_NOT_FOUND"}
    THEN "responder"
    ELSE IF ~s.is_valid /\ s.retry_count < MAX_RETRIES THEN "sql_generator"
    ELSE "responder"

increment_retry(s) == [s EXCEPT !.retry_count = s.retry_count + 1]

\* Mutant: the exploration budget is not consulted.
route_after_tool_execution_no_limit(s) ==
    IF s.tool_results = <<>> THEN "responder"
    ELSE IF s.tool_results[Len(s.tool_results)].tool_name = "explore_column_values"
         THEN "sql_generator"
         ELSE "responder"

\* Mutant: any tool loops back while the exploration budget lasts.
route_after_tool_execution_any_tool(s) ==
    IF s.tool_results = <<>> THEN "responder"
    ELSE IF s.exploration_count < MAX_EXPLORATIONS THEN "sql_generator"
         ELSE "responder"

route_after_tool_execution(s) ==
    IF s.tool_results = <<>> THEN "responder"
    ELSE LET last_result == s.tool_results[Len(s.tool_results)]
         IN  IF last_result.tool_name = "explore_column_values"
                /\ s.exploration_count < MAX_EXPLORATIONS
             THEN "sql_generator"
             ELSE "responder"

(* ---------------------------------------------------------- query engine *)
Min(a, b) == IF a < b THEN a ELSE b
Max(a, b) == IF a > b THEN a ELSE b

\* Messages a failed page fetch (or a raised driver exception) can carry.
DbErrors == {"relation \"users\" does not exist", "column \"x\" does not exist",
             "permission denied for table aws_ec2", "connection lost"}

\* execute_count_query: a total, None on failure/timeout, or it raises.
CountErrors == {"connection lost"}
CountOutcomes == [raised : {FALSE}, total : (0..MaxCount) \cup {NoneInt}, error : {NoneStr}]
                 \cup [raised : {TRUE}, total : {NoneInt}, error : CountErrors]

\* execute_query_paginated: success with some rows (at most the limit), an
\* ExecutionResult carrying an error, or a raised exception.
FetchOutcomes(limit) ==
    {[status |-> "ok", rows |-> n, error |-> NoneStr] : n \in 0..Min(limit, MaxRows)}
    \cup {[status |-> st, rows |-> 0, error |-> e] : st \in {"error", "raise"}, e \in DbErrors}

\* The COUNT query failed or timed out: the engine reports no total.
CountFailed(count) == ~count.raised /\ count.total = NoneInt

\* Classification of a database error text: <<user message, special type>>.
make_user_friendly_error(error) ==
    CASE error = "relation \"users\" does not exist" ->
           <<"The requested resource type 'users' does not exist in our database", "RESOURCE_NOT_FOUND">>
      [] error = "column \"x\" does not exist" ->
           <<"The requested field 'x' does not exist for this resource type", "RESOURCE_NOT_FOUND">>
      [] error = "permission denied for table aws_ec2" ->
           <<"Access to the requested resource is not permitted", NoneStr>>
      [] OTHER -> <<error, NoneStr>>

csv_max_rows == 2500

\* Mutant: pages counted from zero.
Offset_zero_based(page, page_size) == page * page_size

Offset(page, page_size) == (page - 1) * page_size

(* --------------------------------------------------------- executor node *)
make_error(s, msg, special_type) ==
    [s EXCEPT !.executed = FALSE, !.results = NoneInt, !.row_count = NoneInt,
              !.columns = NoneStr, !.execution_error = msg, !.total_count = NoneInt,
              !.has_more_results = FALSE, !.csv_available = FALSE,
              !.csv_exceeds_limit = FALSE,
              !.query_token = NoneStr, !.special_response_type = special_type]

\* Mutant: the SQL is registered whether or not it was valid and executed.
executor_stores_unvalidated(s, count, fetch) == s.generated_sql /= NoneStr

\* executor_node reaches its success branch, where it registers the SQL with
\* the query-token cache.
executor_stores(s, count, fetch) ==
    s.generated_sql /= NoneStr /\ s.is_valid /\ ~count.raised /\ fetch.status = "ok"

\* New state after executor_node, given the engine's answers.
\* Mutant: a COUNT query without a total ends the execution with an error.
executor_node_count_required(s, count, fetch) ==
    IF s.generated_sql = NoneStr THEN make_error(s, "No SQL query to execute", NoneStr)
    ELSE IF ~s.is_valid THEN make_error(s, "SQL validation failed", NoneStr)
    ELSE IF count.raised \/ count.total = NoneInt \/ fetch.status /= "ok"
    THEN make_error(s, "Query execution failed", NoneStr)
    ELSE [s EXCEPT !.executed = TRUE, !.results = fetch.rows, !.row_count = fetch.rows,
                   !.columns = "columns", !.execution_error = NoneStr,
                   !.total_count = count.total,
                   !.has_more_results = (Offset(s.page, s.page_size) + fetch.rows < count.total),
                   !.csv_available = TRUE,
                   !.csv_exceeds_limit = (count.total > csv_max_rows),
                   !.query_token = token_urlsafe]

executor_node(s, count, fetch) ==
    LET sql == s.generated_sql
        offset == Offset(s.page, s.page_size)
    IN  IF sql = NoneStr THEN make_error(s, "No SQL query to execute", NoneStr)
        ELSE IF ~s.is_valid THEN make_error(s, "SQL validation failed", NoneStr)
        ELSE IF count.raised
        THEN make_error(s, make_user_friendly_error(count.error)[1],
                           make_user_friendly_error(count.error)[2])
        ELSE IF fetch.status = "ok"
        THEN [s EXCEPT !.executed = TRUE, !.results = fetch.rows, !.row_count = fetch.rows,
                       !.columns = "columns", !.execution_error = NoneStr,
                       !.total_count = count.total,
                       !.has_more_results = (count.total /= NoneInt
                                             /\ offset + fetch.rows < count.total),
                       !.csv_available = TRUE,
                       !.csv_exceeds_limit = (count.total /= NoneInt /\ count.total > csv_max_rows),
                       !.query_token = token_urlsafe]
        ELSE make_error(s, make_user_friendly_error(fetch.error)[1],
                           make_user_friendly_error(fetch.error)[2])

\* Arguments executor_node passes to execute_query_paginated (<<>>: not called).
executor_fetch_call(s, count) ==
    IF s.generated_sql = NoneStr \/ ~s.is_valid \/ count.raised THEN <<>>
    ELSE <<[offset |-> Offset(s.page, s.page_size), limit |-> s.page_size]>>

\* SQL strings executor_node hands to the engine.
executor_sent(s, count) ==
    IF s.generated_sql = NoneStr \/ ~s.is_valid THEN {} ELSE {s.generated_sql}

(* -------------------------------------------------------- validator node *)
\* Mutant: a missing table sets the special type but leaves the SQL valid.
validator_node_soft_tables(s, catalog) ==
    IF s.special_response_type /= NoneStr
    THEN [s EXCEPT !.is_valid = FALSE, !.validation_errors = <<>>, !.validation_warnings = <<>>]
    ELSE IF s.generated_sql = NoneStr
    THEN [s EXCEPT !.is_valid = FALSE,
                   !.validation_errors = <<"No SQL query was generated">>,
                   !.validation_warnings = <<>>]
    ELSE LET result == validate_sql(s.generated_sql)
             tables == validate_tables_exist(s.generated_sql, catalog)
         IN  [s EXCEPT !.is_valid = result.is_valid,
                       !.validation_errors = result.errors,
                       !.validation_warnings = result.warnings,
                       !.special_response_type =
                           IF result.is_valid /\ ~tables.tables_valid
                           THEN "RESOURCE_NOT_FOUND" ELSE s.special_response_type]

validator_node(s, catalog) ==
    IF s.special_response_type /= NoneStr
    THEN [s EXCEPT !.is_valid = FALSE, !.validation_errors = <<>>, !.validation_warnings = <<>>]
    ELSE IF s.generated_sql = NoneStr
    THEN [s EXCEPT !.is_valid = FALSE,
                   !.validation_errors = <<"No SQL query was generated">>,
                   !.validation_warnings = <<>>]
    ELSE LET result == validate_sql(s.generated_sql)
             tables == validate_tables_exist(s.generated_sql, catalog)
         IN  IF result.is_valid /\ ~tables.tables_valid /\ tables.error /= NoneStr
             THEN [s EXCEPT !.is_valid = FALSE,
                            !.validation_errors = Append(result.errors, tables.error),
                            !.validation_warnings = result.warnings,
                            !.special_response_type = "RESOURCE_NOT_FOUND"]
             ELSE [s EXCEPT !.is_valid = result.is_valid,
                            !.validation_errors = result.errors,
                            !.validation_warnings = result.warnings]

(* ----------------------------------------------------------------- tools *)
sql_max_rows == 1000

\* A tool invocation either raises (tool_fn.ainvoke throws) or returns a dict.
Raised(msg) == [raised |-> TRUE, error |-> msg, result |-> [success |-> FALSE]]
Returned(result) == [raised |-> FALSE, error |-> NoneStr, result |-> result]

error_result(error, page, page_size) ==
    [success |-> FALSE, rows |-> NoneInt, columns |-> NoneStr, row_count |-> 0,
     total_count |-> NoneInt, has_more |-> FALSE, page |-> page, page_size |-> page_size,
     query_token |-> NoneStr, error |-> error]

\* execute_sql_query tool: what it returns, or the exception it lets through
\* (the engine calls are not guarded).
execute_sql_query(args, catalog, count, fetch) ==
    LET page_size == Max(Min(args.page_size, 500), 1)
        page1 == Max(args.page, 1)
        validation == validate_sql(args.sql)
        tables == validate_tables_exist(args.sql, catalog)
        page == Min(page1, 10000)
        offset == Offset(page, page_size)
        effective_page_size == Min(page_size, sql_max_rows)
    IN  IF ~validation.is_valid
        THEN Returned(error_result("Validation failed", page1, page_size))
        ELSE IF ~tables.tables_valid /\ tables.error /= NoneStr
        THEN Returned(error_result(tables.error, page1, page_size))
        ELSE IF count.raised THEN Raised(count.error)
        ELSE IF fetch.status = "raise" THEN Raised(fetch.error)
        ELSE IF fetch.status = "error"
        THEN Returned(error_result(fetch.error, page, page_size))
        ELSE Returned(
               [success |-> TRUE, rows |-> fetch.rows, columns |-> "columns",
                row_count |-> fetch.rows, total_count |-> count.total,
                has_more |-> IF count.total /= NoneInt
                             THEN offset + fetch.rows < count.total
                             ELSE fetch.rows = effective_page_size,
                page |-> page, page_size |-> page_size,
                query_token |-> token_urlsafe, error |-> NoneStr])

\* The invoked tool registered its SQL with the query-token cache: only
\* execute_sql_query does, just before it returns success.
tool_stores(call, outcome) ==
    call.name = "execute_sql_query" /\ ~outcome.raised /\ outcome.result.success

\* SQL strings the execute_sql_query tool hands to the engine.
execute_sql_query_sent(args, catalog) ==
    IF ~validate_sql(args.sql).is_valid THEN {}
    ELSE IF ~validate_tables_exist(args.sql, catalog).tables_valid THEN {}
    ELSE {args.sql}

\* Arguments the tool passes to execute_query_paginated (<<>>: not called).
execute_sql_query_fetch_call(args, catalog, count) ==
    LET page_size == Max(Min(args.page_size, 500), 1)
        page == Min(Max(args.page, 1), 10000)
    IN  IF ~validate_sql(args.sql).is_valid THEN <<>>
        ELSE IF ~validate_tables_exist(args.sql, catalog).tables_valid THEN <<>>
        ELSE IF count.raised THEN <<>>
        ELSE <<[offset |-> Offset(page, page_size), limit |-> Min(page_size, sql_max_rows)]>>

\* Limit the tool passes to the page fetch.
execute_sql_query_limit(args) == Min(Max(Min(args.page_size, 500), 1), sql_max_rows)

\* Identifier check of explore_column_values (^[a-zA-Z_][a-zA-Z0-9_]*$).
validate_identifier(name) ==
    name \in {"aws_ec2", "users", "engine", "region", "nonexistent_column"}

\* "public.aws_ec2" -> "aws_ec2": the part after the last dot.
normalize_table_name(table_name) ==
    IF table_name = "public.aws_ec2" THEN "aws_ec2" ELSE table_name

explore_failure(error) ==
    [success |-> FALSE, values |-> <<>>, total_distinct |-> 0, search_term |-> NoneStr,
     table |-> NoneStr, column |-> NoneStr, error |-> error]

\* explore_column_values tool. The known-table lookup is made outside the
\* try block, so a vector-store failure escapes as an exception. db.ok is
\* FALSE when a query fails; db.values is the list of [value, count] found.
explore_column_values(args, catalog, db) ==
    LET table_name == normalize_table_name(args.table_name)
    IN  IF ~validate_identifier(table_name)
        THEN Returned(explore_failure("Invalid table name"))
        ELSE IF ~validate_identifier(args.column_name)
        THEN Returned(explore_failure("Invalid column name"))
        ELSE IF catalog = "raises" THEN Raised("vector store unavailable")
        ELSE IF table_name \notin KnownTables
        THEN Returned(explore_failure("Table not found"))
        ELSE IF ~db.ok THEN Returned(explore_failure("Exploration failed"))
        ELSE Returned([success |-> TRUE, values |-> db.values,
                       total_distinct |-> Len(db.values),
                       search_term |-> NoneStr, table |-> table_name,
                       column |-> args.column_name, error |-> NoneStr])

\* The value query explore_column_values builds for a table and a column.
explore_sql(table_name, column_name) ==
    "SELECT \"" \o column_name \o "\" as value, COUNT(*) as count FROM \""
        \o table_name \o "\""

\* Queries explore_column_values sends to the database for a call.
explore_column_values_sent(args, catalog) ==
    LET table_name == normalize_table_name(args.table_name)
    IN  IF \/ ~validate_identifier(table_name)
           \/ ~validate_identifier(args.column_name)
           \/ catalog = "raises"
           \/ table_name \notin KnownTables
        THEN {}
        ELSE {explore_sql(table_name, args.column_name)}

\* Columns the schema catalog lists for a table.
get_known_columns(table_name) ==
    IF table_name = "aws_ec2" THEN {"engine", "region"} ELSE {}

TOOL_REGISTRY == {"execute_sql_query", "explore_column_values"}

ValuesOf(values) == [i \in 1..Len(values) |-> values[i].value]

\* Record tool_executor_node appends to tool_results.
tool_result_record(pending, success, error, result) ==
    [tool_call_id |-> pending.id, tool_name |-> pending.name, success |-> success,
     error |-> error, result |-> result]

\* Mutant: storing a key drops the other keys.
dict_put_drops_others(d, key, values) == {[key |-> key, values |-> values]}

\* discovered_values[key] = values: the dict as a set of entries, one per key.
dict_put(d, key, values) ==
    {e \in d : e.key /= key} \cup {[key |-> key, values |-> values]}

\* Mutant: the tool path marks the query executed without marking it valid.
fold_execute_success_not_valid(base, result) ==
    [base EXCEPT !.executed = TRUE,
                 !.results = result.rows, !.row_count = result.row_count,
                 !.columns = result.columns,
                 !.total_count = result.total_count,
                 !.has_more_results = result.has_more,
                 !.query_token = result.query_token,
                 !.csv_available = TRUE,
                 !.execution_error = NoneStr]

\* Mutant: the rows are folded in but the query is not marked executed.
fold_execute_success_not_executed(base, result) ==
    [base EXCEPT !.is_valid = TRUE,
                 !.results = result.rows, !.row_count = result.row_count,
                 !.columns = result.columns,
                 !.total_count = result.total_count,
                 !.has_more_results = result.has_more,
                 !.query_token = result.query_token,
                 !.csv_available = TRUE,
                 !.csv_exceeds_limit = (result.total_count /= NoneInt
                                        /\ result.total_count > csv_max_rows),
                 !.execution_error = NoneStr]

\* Folding a successful execute_sql_query result into the execution fields.
fold_execute_success(base, result) ==
    [base EXCEPT !.is_valid = TRUE, !.executed = TRUE,
                 !.results = result.rows, !.row_count = result.row_count,
                 !.columns = result.columns,
                 !.total_count = result.total_count,
                 !.has_more_results = result.has_more,
                 !.query_token = result.query_token,
                 !.csv_available = TRUE,
                 !.csv_exceeds_limit = (result.total_count /= NoneInt
                                        /\ result.total_count > csv_max_rows),
                 !.execution_error = NoneStr]

\* Mutant: the unknown-tool record replaces the audit trail.
unknown_tool_update_replaces(s, pending) ==
    [s EXCEPT !.tool_results =
                  <<tool_result_record(pending, FALSE, "Unknown tool: " \o pending.name, <<>>)>>,
              !.pending_tool_call = <<>>]

\* Mutant: the unknown-tool branch also reports an execution error.
unknown_tool_update_sets_error(s, pending) ==
    [s EXCEPT !.tool_results = Append(s.tool_results,
                  tool_result_record(pending, FALSE, "Unknown tool: " \o pending.name, <<>>)),
              !.pending_tool_call = <<>>,
              !.execution_error = "Unknown tool: " \o pending.name]

\* Unregistered tool: one failed record, pending call cleared, nothing else.
unknown_tool_update(s, pending) ==
    [s EXCEPT !.tool_results = Append(s.tool_results,
                  tool_result_record(pending, FALSE, "Unknown tool: " \o pending.name, <<>>)),
              !.pending_tool_call = <<>>]

\* Mutant: the except branch leaves the call pending.
tool_exception_update_keeps_pending(s, pending, error) ==
    [s EXCEPT !.tool_results = Append(s.tool_results,
                  tool_result_record(pending, FALSE, error, <<>>)),
              !.execution_error = error]

\* Mutant: the except branch records nothing in tool_results.
tool_exception_update_no_record(s, pending, error) ==
    [s EXCEPT !.pending_tool_call = <<>>,
              !.execution_error = error]

\* except branch: one failed record with str(e), pending call cleared,
\* execution_error set.
tool_exception_update(s, pending, error) ==
    [s EXCEPT !.tool_results = Append(s.tool_results,
                  tool_result_record(pending, FALSE, error, <<>>)),
              !.pending_tool_call = <<>>,
              !.execution_error = error]

\* New state after tool_executor_node; outcome is what tool_fn.ainvoke did
\* (ignored for an unregistered tool, which is never invoked).
tool_executor_node(s, outcome) ==
    IF s.pending_tool_call = <<>>
    THEN [s EXCEPT !.tool_results = <<>>, !.pending_tool_call = <<>>]
    ELSE
    LET pending == s.pending_tool_call[1]
        tool_name == pending.name
        result == outcome.result
    IN  IF tool_name \notin TOOL_REGISTRY
        THEN unknown_tool_update(s, pending)
        ELSE IF outcome.raised
        THEN tool_exception_update(s, pending, outcome.error)
        ELSE
        LET base == [s EXCEPT !.tool_results = Append(s.tool_results,
                          tool_result_record(pending, result.success, result.error, <<result>>)),
                              !.pending_tool_call = <<>>]
        IN  IF tool_name = "execute_sql_query"
            THEN IF result.success
                 THEN fold_execute_success(base, result)
                 ELSE [base EXCEPT !.executed = FALSE, !.execution_error = result.error]
            ELSE
            LET table == IF result.table /= NoneStr THEN result.table ELSE pending.args.table_name
                column == IF result.column /= NoneStr THEN result.column ELSE pending.args.column_name
                exploration_record ==
                    [table |-> table, column |-> column, search_term |-> result.search_term,
                     values |-> ValuesOf(result.values),
                     counts |-> {<<result.values[i].value, result.values[i].count>> :
                                     i \in 1..Len(result.values)},
                     total_distinct |-> result.total_distinct, success |-> result.success]
            IN  [base EXCEPT !.exploration_count = s.exploration_count + 1,
                             !.exploration_queries = Append(s.exploration_queries, exploration_record),
                             !.discovered_values =
                                 IF result.success /\ result.values /= <<>>
                                 THEN dict_put(s.discovered_values, table \o "." \o column,
                                               [values |-> ValuesOf(result.values),
                                                search_term |-> result.search_term])
                                 ELSE s.discovered_values]

(* ----------------------------------------------------- sql_generator node *)
\* _parse_sql_response on the LLM's text: <<sql, explanation, special type>>.
\* content.marker is the leading marker ("" none), content.sql the SQL found
\* by the code-block / SELECT regular expressions (None if none), content.text
\* the remaining text ("" if none).
parse_sql_response(content) ==
    IF content.marker \in {"[OUT_OF_SCOPE]", "[READ_ONLY]"}
    THEN <<NoneStr, content.text,
           IF content.marker = "[OUT_OF_SCOPE]" THEN "OUT_OF_SCOPE" ELSE "READ_ONLY">>
    ELSE <<content.sql, IF content.text /= "" THEN content.text ELSE NoneStr, NoneStr>>

\* New state after sql_generator_node, given the LLM response.
sql_generator_node(s, response) ==
    IF response.tool_calls /= <<>>
    THEN LET first_tool_call == response.tool_calls[1]
         IN  [s EXCEPT !.generated_sql = first_tool_call.args.sql,
                       !.sql_explanation = "Executing query via tool call.",
                       !.messages = Append(s.messages, "human"),
                       !.special_response_type = NoneStr,
                       !.tool_calls = response.tool_calls,
                       !.pending_tool_call = <<first_tool_call>>]
    ELSE LET parsed == parse_sql_response(response.content)
             result == [s EXCEPT !.generated_sql = parsed[1],
                                 !.sql_explanation = parsed[2],
                                 !.messages = Append(s.messages, "human"),
                                 !.special_response_type = parsed[3],
                                 !.tool_calls = <<>>,
                                 !.pending_tool_call = <<>>]
         IN  IF parsed[3] /= NoneStr
             THEN [result EXCEPT !.natural_language_response = parsed[2],
                                 !.is_valid = FALSE,
                                 !.validation_errors = <<>>]
             ELSE result

(* --------------------------------------------------------- responder node *)
RESPONSE_TEMPLATES(kind) == "template:" \o kind

\* Mutant: an empty result set is no longer answered from a template.
get_template_response_no_zero_rows(s) ==
    IF s.natural_language_response \notin {NoneStr, ""} /\ s.special_response_type /= NoneStr
    THEN s.natural_language_response
    ELSE IF s.special_response_type \in {"OUT_OF_SCOPE", "READ_ONLY", "RESOURCE_NOT_FOUND"}
    THEN RESPONSE_TEMPLATES(s.special_response_type)
    ELSE NoneStr

\* _get_template_response: the template text, or None when the LLM must answer.
get_template_response(s) ==
    IF s.natural_language_response \notin {NoneStr, ""} /\ s.special_response_type /= NoneStr
    THEN s.natural_language_response
    ELSE IF s.special_response_type \in {"OUT_OF_SCOPE", "READ_ONLY", "RESOURCE_NOT_FOUND"}
    THEN RESPONSE_TEMPLATES(s.special_response_type)
    ELSE IF s.executed /\ s.results /= NoneInt /\ s.results = 0
    THEN RESPONSE_TEMPLATES("NO_RESULTS")
    ELSE NoneStr

\* Mutant: a template answer is appended to the history but not stored.
responder_node_template_not_stored(s, llm_text) ==
    IF get_template_response(s) /= NoneStr
    THEN [s EXCEPT !.messages = Append(s.messages, "ai")]
    ELSE [s EXCEPT !.natural_language_response = llm_text,
                   !.messages = Append(s.messages, "ai")]

\* New state after responder_node; llm_text is the LLM's answer when asked.
responder_node(s, llm_text) ==
    LET template_response == get_template_response(s)
        text == IF template_response /= NoneStr THEN template_response ELSE llm_text
    IN  [s EXCEPT !.natural_language_response = text,
                  !.messages = Append(s.messages, "ai")]

(* ------------------------------------------------- collaborator answers *)
NoArgs == [sql |-> NoneStr, page |-> 1, page_size |-> 100,
           table_name |-> NoneStr, column_name |-> NoneStr]

\* Tool calls the LLM may request; n numbers the LLM response, so call ids
\* are unique within a request.
ToolCalls(n) ==
    LET id == "call_" \o ToString(n)
    IN  {[id |-> id, name |-> "execute_sql_query",
          args |-> [NoArgs EXCEPT !.sql = q, !.page = pg[1], !.page_size = pg[2]]] :
             q \in {"SELECT * FROM aws_ec2 LIMIT 10", "SELECT id FROM users",
                    "DELETE FROM aws_ec2"},
             pg \in {<<1, 100>>, <<2, 2>>}}
        \cup
        {[id |-> id, name |-> "explore_column_values",
          args |-> [NoArgs EXCEPT !.table_name = tc[1], !.column_name = tc[2]]] :
             tc \in {<<"aws_ec2", "engine">>, <<"aws_ec2", "region">>, <<"users", "engine">>}}
        \cup
        {[id |-> id, name |-> "unknown_tool", args |-> NoArgs]}

\* A second call in the same LLM response (only the first is ever pending).
ExtraCall(n) == [id |-> "call_" \o ToString(n) \o "b", name |-> "execute_sql_query",
                 args |-> [NoArgs EXCEPT !.sql = "SELECT * FROM aws_ec2 LIMIT 10"]]

NoContent == [marker |-> "", sql |-> NoneStr, text |-> ""]

LlmResponses(n) ==
    {[tool_calls |-> <<c>>, content |-> NoContent] : c \in ToolCalls(n)}
    \cup {[tool_calls |-> <<c, ExtraCall(n)>>, content |-> NoContent] :
             c \in {x \in ToolCalls(n) : x.name = "explore_column_values"
                                          /\ x.args.column_name = "engine"
                                          /\ x.args.table_name = "aws_ec2"}}
    \cup {[tool_calls |-> <<>>, content |-> [marker |-> m, sql |-> NoneStr, text |-> txt]] :
             m \in {"[OUT_OF_SCOPE]", "[READ_ONLY]"}, txt \in {"I can only help with cloud resources", ""}}
    \cup {[tool_calls |-> <<>>, content |-> [marker |-> "", sql |-> q, text |-> "explanation"]] :
             q \in SqlStrings \cup {NoneStr}}

Catalog == {"ok", "raises"}

ExploreDb == {[ok |-> FALSE, values |-> <<>>],
              [ok |-> TRUE, values |-> <<>>],
              [ok |-> TRUE, values |-> <<[value |-> "postgres", count |-> 150]>>]}

\* Database answers explored for a call on the second column: values found.
RegionDb == {[ok |-> TRUE, values |-> <<[value |-> "us-east-1", count |-> 7]>>]}

(* --------------------------------------------------------------- actions *)
Running(node) == pc = node /\ steps < MaxSteps

Step(node) == steps' = steps + 1 /\ prev' = node

Retrieval ==
    /\ Running("retrieval")
    /\ Step("retrieval")
    /\ pc' = "sql_generator"
    /\ StreamNode("retrieval", state, state)
    /\ UNCHANGED <<state, gen_count, only_invalid, engine_log, tool_loops, retry_loops, responder_runs, tool_raised, fetch_call, engine_script>>
    /\ CacheFrame /\ IdleFrame

\* A vector-store search raises: retrieval_node has no handler.
RetrievalFails ==
    /\ Running("retrieval")
    /\ Step("retrieval")
    /\ pc' = "error"
    /\ StreamFailure("retrieval")
    /\ UNCHANGED <<state, gen_count, only_invalid, engine_log, tool_loops, retry_loops, responder_runs, tool_raised, fetch_call, engine_script>>
    /\ CacheFrame /\ IdleFrame

SqlGenerator ==
    /\ Running("sql_generator")
    /\ Step("sql_generator")
    /\ \E response \in LlmResponses(gen_count + 1) :
          /\ state' = sql_generator_node(state, response)
          /\ only_invalid' = (only_invalid /\ response.tool_calls = <<>>
                              /\ response.content.marker = "")
    /\ pc' = should_validate_or_respond(state')
    /\ gen_count' = gen_count + 1
    /\ StreamNode("sql_generator", state, state')
    /\ UNCHANGED <<engine_log, tool_loops, retry_loops, responder_runs, tool_raised, fetch_call, engine_script>>
    /\ CacheFrame /\ IdleFrame

\* The LLM call raises: sql_generator_node has no handler.
SqlGeneratorFails ==
    /\ Running("sql_generator")
    /\ Step("sql_generator")
    /\ pc' = "error"
    /\ gen_count' = gen_count + 1
    /\ StreamFailure("sql_generator")
    /\ UNCHANGED <<state, only_invalid, engine_log, tool_loops, retry_loops, responder_runs, tool_raised, fetch_call, engine_script>>
    /\ CacheFrame /\ IdleFrame

Validator ==
    /\ Running("validator")
    /\ Step("validator")
    /\ \E catalog \in Catalog : state' = validator_node(state, catalog)
    /\ pc' = validator_edge(should_execute(state'))
    /\ only_invalid' = (only_invalid /\ ~state'.is_valid
                        /\ state'.special_response_type = NoneStr)
    /\ StreamNode("validator", state, state')
    /\ UNCHANGED <<gen_count, engine_log, tool_loops, retry_loops, responder_runs, tool_raised, fetch_call, engine_script>>
    /\ CacheFrame /\ IdleFrame

IncrementRetry ==
    /\ Running("increment_retry")
    /\ Step("increment_retry")
    /\ state' = increment_retry(state)
    /\ pc' = should_retry(state')
    /\ retry_loops' = IF pc' = "sql_generator" THEN retry_loops + 1 ELSE retry_loops
    /\ StreamNode("increment_retry", state, state')
    /\ UNCHANGED <<gen_count, only_invalid, engine_log, tool_loops, responder_runs, tool_raised, fetch_call, engine_script>>
    /\ CacheFrame /\ IdleFrame

Executor ==
    /\ Running("executor")
    /\ Step("executor")
    /\ \E count \in CountOutcomes, fetch \in FetchOutcomes(state.page_size) :
          /\ state' = executor_node(state, count, fetch)
          /\ engine_log' = engine_log \cup executor_sent(state, count)
          /\ fetch_call' = last_fetch(fetch_call, executor_fetch_call(state, count))
          /\ NodeStore(executor_stores(state, count, fetch), state.generated_sql)
    /\ pc' = "responder"
    /\ StreamNode("executor", state, state')
    /\ UNCHANGED <<gen_count, only_invalid, tool_loops, retry_loops, responder_runs, tool_raised, engine_script>>
    /\ IdleFrame

\* What invoking the pending tool does, for each answer of its collaborators.
invoke_tool(call, catalog, count, fetch, db) ==
    IF call.name = "execute_sql_query"
    THEN execute_sql_query(call.args, catalog, count, fetch)
    ELSE IF call.name = "explore_column_values"
    THEN explore_column_values(call.args, catalog, db)
    ELSE Raised("not invoked")

ToolExecutor ==
    /\ Running("tool_executor")
    /\ Step("tool_executor")
    /\ state.pending_tool_call /= <<>>
    /\ LET call == state.pending_tool_call[1]
           isExec == call.name = "execute_sql_query"
           isExplore == call.name = "explore_column_values"
           isRegion == isExplore /\ call.args.column_name = "region"
       IN  \E catalog \in IF isExec \/ (isExplore /\ ~isRegion) THEN Catalog ELSE {"ok"},
              count \in IF isExec THEN CountOutcomes ELSE {CHOOSE c \in CountOutcomes : TRUE},
              db \in IF isRegion THEN RegionDb
                     ELSE IF isExplore THEN ExploreDb ELSE {CHOOSE d \in ExploreDb : TRUE},
              fetch \in IF isExec THEN FetchOutcomes(execute_sql_query_limit(call.args))
                        ELSE {CHOOSE f \in FetchOutcomes(1) : TRUE} :
              LET outcome == invoke_tool(call, catalog, count, fetch, db)
              IN  /\ state' = tool_executor_node(state, outcome)
                  /\ tool_raised' = (call.name \in TOOL_REGISTRY /\ outcome.raised)
                  /\ engine_log' = engine_log \cup
                        (IF call.name = "execute_sql_query"
                         THEN execute_sql_query_sent(call.args, catalog) ELSE {})
                  /\ fetch_call' = last_fetch(fetch_call,
                        IF call.name = "execute_sql_query"
                        THEN execute_sql_query_fetch_call(call.args, catalog, count)
                        ELSE <<>>)
                  /\ NodeStore(tool_stores(call, outcome), call.args.sql)
    /\ pc' = route_after_tool_execution(state')
    /\ tool_loops' = IF pc' = "sql_generator" THEN tool_loops + 1 ELSE tool_loops
    /\ StreamNode("tool_executor", state, state')
    /\ UNCHANGED <<gen_count, only_invalid, retry_loops, responder_runs, engine_script>>
    /\ IdleFrame

Responder ==
    /\ Running("responder")
    /\ Step("responder")
    /\ state' = responder_node(state, "llm answer")
    /\ pc' = "END"
    /\ responder_runs' = responder_runs + 1
    /\ StreamNode("responder", state, state')
    /\ UNCHANGED <<gen_count, only_invalid, engine_log, tool_loops, retry_loops, tool_raised, fetch_call, engine_script>>
    /\ CacheFrame /\ IdleFrame

\* The responder's LLM call raises (only made when no template applies).
ResponderFails ==
    /\ Running("responder")
    /\ get_template_response(state) = NoneStr
    /\ Step("responder")
    /\ pc' = "error"
    /\ StreamFailure("responder")
    /\ UNCHANGED <<state, gen_count, only_invalid, engine_log, tool_loops, retry_loops, responder_runs, tool_raised, fetch_call, engine_script>>
    /\ CacheFrame /\ IdleFrame

Next ==
    \/ Retrieval
    \/ RetrievalFails
    \/ SqlGenerator
    \/ SqlGeneratorFails
    \/ Validator
    \/ IncrementRetry
    \/ Executor
    \/ ToolExecutor
    \/ Responder
    \/ ResponderFails

Spec == Init /\ [][Next]_vars

(* ------------------------------------------------- the streamed request *)
\* stream_query cannot obtain the compiled graph: create_agent_graph asks the
\* session manager for _init_checkpointer, which SessionManager does not
\* define, and the call is made before the handler's try block.
GetAgentGraphFails ==
    /\ streaming
    /\ pc = "retrieval" /\ prev = "START"
    /\ pc' = "crashed"
    /\ UNCHANGED <<state, steps, prev, gen_count, only_invalid, engine_log, tool_loops, retry_loops, responder_runs, tool_raised, fetch_call, engine_script, events>>
    /\ CacheFrame /\ IdleFrame

\* The graph stream is exhausted: stream_query asks for follow-up questions
\* (a failure there is only logged), calls update_session without awaiting
\* it, and sends done.
StreamDone ==
    /\ streaming
    /\ pc = "END"
    /\ pc' = "closed"
    /\ \E suggested \in BOOLEAN :
          events' = events \o (IF suggested THEN <<Event("suggested_questions", NoneStr)>>
                                ELSE <<>>)
                           \o <<Event("done", NoneStr)>>
    /\ UNCHANGED <<state, steps, prev, gen_count, only_invalid, engine_log, tool_loops, retry_loops, responder_runs, tool_raised, fetch_call, engine_script>>
    /\ CacheFrame /\ IdleFrame

\* A request served by stream_query: the same graph, its chunks turned into
\* events.
StreamInit == RequestInit /\ streaming = TRUE

StreamNext ==
    \/ Retrieval
    \/ RetrievalFails
    \/ SqlGenerator
    \/ SqlGeneratorFails
    \/ Validator
    \/ IncrementRetry
    \/ Executor
    \/ ToolExecutor
    \/ Responder
    \/ ResponderFails
    \/ GetAgentGraphFails
    \/ StreamDone

StreamSpec == StreamInit /\ [][StreamNext]_vars

(* ------------------------------------------- routing functions on their own *)
\* The routing functions applied to arbitrary states, as the unit tests call
\* them: any special_response_type, validity, retry count and pending call.
MaxRetryInput == 3

SpecialValues == {NoneStr, "OUT_OF_SCOPE", "READ_ONLY", "RESOURCE_NOT_FOUND",
                  "NEEDS_CLARIFICATION"}

RouteStates ==
    {[create_initial_state(1, 100) EXCEPT !.special_response_type = sp,
                                          !.is_valid = v,
                                          !.retry_count = rc,
                                          !.pending_tool_call = p] :
        sp \in SpecialValues, v \in BOOLEAN, rc \in 0..MaxRetryInput,
        p \in {<<>>, <<[id |-> "call_1", name |-> "test", args |-> NoArgs]>>}}

RouteInit ==
    /\ state \in RouteStates
    /\ pc = "route"
    /\ steps = 0
    /\ prev = "START"
    /\ gen_count = 0
    /\ only_invalid = TRUE
    /\ engine_log = {}
    /\ tool_loops = 0
    /\ retry_loops = 0
    /\ responder_runs = 0
    /\ tool_raised = FALSE
    /\ fetch_call = <<>>
    /\ engine_script = NoScript
    /\ ServiceInit
    /\ streaming = FALSE

RouteFrame == UNCHANGED <<state, gen_count, only_invalid, engine_log, tool_loops,
                          retry_loops, responder_runs, tool_raised, fetch_call, engine_script,
                          cache, clock, tokens_issued, store_log, handlers, lock,
                          get_result, csv_sent, csv_reply, streaming, events,
                          validations, sessions, session_log>>

CallShouldValidateOrRespond ==
    /\ pc = "route"
    /\ Step("should_validate_or_respond")
    /\ pc' = should_validate_or_respond(state)
    /\ RouteFrame

CallShouldExecute ==
    /\ pc = "route"
    /\ Step("should_execute")
    /\ pc' = should_execute(state)
    /\ RouteFrame

CallShouldRetry ==
    /\ pc = "route"
    /\ Step("should_retry")
    /\ pc' = should_retry(state)
    /\ RouteFrame

RouteNext ==
    \/ CallShouldValidateOrRespond
    \/ CallShouldExecute
    \/ CallShouldRetry

RouteSpec == RouteInit /\ [][RouteNext]_vars

(* ------------------------------------ the two execution paths, same answers *)
\* One request run through the executor stage or through the execute_sql_query
\* tool, with the SQL the LLM produces, the catalog's behaviour and the query
\* engine's answers fixed in advance, so that both paths meet the same ones.
ExecPages == {1, 2, 3, 10000, 10001}
ExecPageSizes == {1, 2, 50, 500}

ExecScripts(limit) ==
    [sql : SqlStrings, catalog : Catalog, count : CountOutcomes, fetch : FetchOutcomes(limit)]

\* The tool call the LLM makes for the scripted SQL with the request's paging.
ScriptedCall(s) ==
    [id |-> "call_1", name |-> "execute_sql_query",
     args |-> [NoArgs EXCEPT !.sql = engine_script.sql, !.page = s.page,
                             !.page_size = s.page_size]]

ExecInit ==
    /\ \E page \in ExecPages, page_size \in ExecPageSizes :
          /\ state = create_initial_state(page, page_size)
          /\ engine_script \in ExecScripts(page_size)
    /\ pc = "sql_generator"
    /\ steps = 0
    /\ prev = "START"
    /\ gen_count = 0
    /\ only_invalid = TRUE
    /\ engine_log = {}
    /\ tool_loops = 0
    /\ retry_loops = 0
    /\ responder_runs = 0
    /\ tool_raised = FALSE
    /\ fetch_call = <<>>
    /\ ServiceInit
    /\ streaming = FALSE

ExecFrame == UNCHANGED <<gen_count, only_invalid, tool_loops, retry_loops, responder_runs,
                         engine_script, clock, handlers, lock, get_result, csv_sent,
                         csv_reply, streaming, events, validations, sessions, session_log>>

ScriptedGenerateText ==
    /\ pc = "sql_generator"
    /\ Step("sql_generator")
    /\ state' = sql_generator_node(state,
                    [tool_calls |-> <<>>,
                     content |-> [marker |-> "", sql |-> engine_script.sql,
                                  text |-> "explanation"]])
    /\ pc' = should_validate_or_respond(state')
    /\ UNCHANGED <<engine_log, tool_raised, fetch_call>>
    /\ CacheFrame
    /\ ExecFrame

ScriptedGenerateToolCall ==
    /\ pc = "sql_generator"
    /\ Step("sql_generator")
    /\ state' = sql_generator_node(state,
                    [tool_calls |-> <<ScriptedCall(state)>>, content |-> NoContent])
    /\ pc' = should_validate_or_respond(state')
    /\ UNCHANGED <<engine_log, tool_raised, fetch_call>>
    /\ CacheFrame
    /\ ExecFrame

ScriptedValidator ==
    /\ pc = "validator"
    /\ Step("validator")
    /\ state' = validator_node(state, engine_script.catalog)
    /\ pc' = validator_edge(should_execute(state'))
    /\ UNCHANGED <<engine_log, tool_raised, fetch_call>>
    /\ CacheFrame
    /\ ExecFrame

ScriptedExecutor ==
    /\ pc = "executor"
    /\ Step("executor")
    /\ state' = executor_node(state, engine_script.count, engine_script.fetch)
    /\ engine_log' = engine_log \cup executor_sent(state, engine_script.count)
    /\ fetch_call' = last_fetch(fetch_call, executor_fetch_call(state, engine_script.count))
    /\ NodeStore(executor_stores(state, engine_script.count, engine_script.fetch),
                 state.generated_sql)
    /\ pc' = "responder"
    /\ UNCHANGED tool_raised
    /\ ExecFrame

ScriptedToolExecutor ==
    /\ pc = "tool_executor"
    /\ Step("tool_executor")
    /\ LET call == state.pending_tool_call[1]
           outcome == execute_sql_query(call.args, engine_script.catalog,
                                        engine_script.count, engine_script.fetch)
       IN  /\ state' = tool_executor_node(state, outcome)
           /\ tool_raised' = outcome.raised
           /\ engine_log' = engine_log \cup
                                execute_sql_query_sent(call.args, engine_script.catalog)
           /\ fetch_call' = last_fetch(fetch_call,
                                execute_sql_query_fetch_call(call.args, engine_script.catalog,
                                                             engine_script.count))
           /\ NodeStore(tool_stores(call, outcome), call.args.sql)
    /\ pc' = route_after_tool_execution(state')
    /\ ExecFrame

ExecNext ==
    \/ ScriptedGenerateText
    \/ ScriptedGenerateToolCall
    \/ ScriptedValidator
    \/ ScriptedExecutor
    \/ ScriptedToolExecutor

ExecSpec == ExecInit /\ [][ExecNext]_vars

(* ------------------------- the query-token cache under concurrent handlers *)
\* Seconds the clock may advance, and store calls made, in one exploration.
MaxClock == 2
MaxStores == 2

\* (sql, session_id) pairs the handlers store; a pair may be stored again.
StoreRequests == {<<"SELECT 1", "session1">>, <<"SELECT * FROM users", "session2">>}

\* Tokens a caller may present to get: any token drawn so far, or one that
\* was never issued.
PresentedTokens == {"tok" \o ToString(i) : i \in 1..tokens_issued} \cup {"nonexistent-token"}

\* No request of the pipeline is in flight.
NoRequest ==
    /\ state = create_initial_state(1, 2)
    /\ pc = "idle"
    /\ steps = 0
    /\ prev = "START"
    /\ gen_count = 0
    /\ only_invalid = TRUE
    /\ engine_log = {}
    /\ tool_loops = 0
    /\ retry_loops = 0
    /\ responder_runs = 0
    /\ tool_raised = FALSE
    /\ fetch_call = <<>>
    /\ engine_script = NoScript
    /\ streaming = FALSE

CacheInit == NoRequest /\ ServiceInit

RequestFrame == UNCHANGED <<state, pc, steps, prev, gen_count, only_invalid, engine_log,
                            tool_loops, retry_loops, responder_runs, tool_raised,
                            fetch_call, engine_script, streaming, events,
                            validations, sessions, session_log>>

\* time.time() advances.
Tick ==
    /\ clock < MaxClock
    /\ clock' = clock + 1
    /\ UNCHANGED <<cache, tokens_issued, store_log, handlers, lock, get_result,
                   csv_sent, csv_reply>>
    /\ RequestFrame

\* A handler enters store(sql, session_id): the token is drawn before the
\* lock is taken.
CallStore ==
    /\ tokens_issued < MaxStores
    /\ \E h \in Handlers, rq \in StoreRequests :
          /\ handlers[h].op = "idle"
          /\ handlers' = [handlers EXCEPT ![h] = [op |-> "store", token |-> token_urlsafe,
                                                  sql |-> rq[1], session_id |-> rq[2]]]
    /\ tokens_issued' = tokens_issued + 1
    /\ UNCHANGED <<cache, clock, store_log, lock, get_result, csv_sent, csv_reply>>
    /\ RequestFrame

\* A handler enters get(token).
CallGet ==
    /\ \E h \in Handlers, token \in PresentedTokens :
          /\ handlers[h].op = "idle"
          /\ handlers' = [handlers EXCEPT ![h] = [Idle EXCEPT !.op = "get", !.token = token]]
    /\ UNCHANGED <<cache, clock, tokens_issued, store_log, lock, get_result, csv_sent,
                   csv_reply>>
    /\ RequestFrame

\* with self._lock: a waiting handler takes the free lock.
AcquireLock ==
    /\ lock = NoHandler
    /\ \E h \in Handlers : handlers[h].op \in {"store", "get"} /\ lock' = h
    /\ UNCHANGED <<cache, clock, tokens_issued, store_log, handlers, get_result, csv_sent,
                   csv_reply>>
    /\ RequestFrame

\* The locked body of store, then the release.
StoreLocked ==
    /\ lock \in Handlers
    /\ handlers[lock].op = "store"
    /\ LET call == handlers[lock]
       IN  /\ cache' = store(cache, call.token, call.sql, call.session_id, clock)
           /\ store_log' = store_log \cup
                               {store_record(call.token, call.sql, call.session_id, clock)}
    /\ handlers' = [handlers EXCEPT ![lock] = Idle]
    /\ lock' = NoHandler
    /\ UNCHANGED <<clock, tokens_issued, get_result, csv_sent, csv_reply>>
    /\ RequestFrame

\* The locked body of get, then the release.
GetLocked ==
    /\ lock \in Handlers
    /\ handlers[lock].op = "get"
    /\ LET token == handlers[lock].token
       IN  /\ get_result' = <<[token |-> token, at |-> clock,
                                entry |-> get(cache, token, clock)]>>
           /\ cache' = cache_after_get(cache, token, clock)
    /\ handlers' = [handlers EXCEPT ![lock] = Idle]
    /\ lock' = NoHandler
    /\ UNCHANGED <<clock, tokens_issued, store_log, csv_sent, csv_reply>>
    /\ RequestFrame

CacheNext ==
    \/ Tick
    \/ CallStore
    \/ CallGet
    \/ AcquireLock
    \/ StoreLocked
    \/ GetLocked

CacheSpec == CacheInit /\ [][CacheNext]_vars

(* ------------------------------------------------------------- CSV export *)
\* limit values of a CSVDownloadRequest (None: not given).
CsvLimits == {NoneInt, 10}

\* min(request.limit or csv_max_rows, csv_max_rows)
csv_limit(limit) ==
    Min(IF limit = NoneInt \/ limit = 0 THEN csv_max_rows ELSE limit, csv_max_rows)

\* download_csv: the token is looked up first; an unknown or expired token is
\* answered with 400, otherwise the cached SQL is streamed from the database.
DownloadCsv ==
    /\ lock = NoHandler
    /\ \E token \in PresentedTokens, limit \in CsvLimits :
          LET cached_query == get(cache, token, clock)
          IN  /\ get_result' = <<[token |-> token, at |-> clock, entry |-> cached_query]>>
              /\ cache' = cache_after_get(cache, token, clock)
              /\ IF cached_query = NoEntry
                 THEN csv_reply' = 400 /\ UNCHANGED csv_sent
                 ELSE /\ csv_reply' = 200
                      /\ csv_sent' = csv_sent \cup
                            {[sql |-> cached_query.sql, offset |-> 0,
                              limit |-> csv_limit(limit)]}
    /\ UNCHANGED <<clock, tokens_issued, store_log, handlers, lock>>
    /\ RequestFrame

\* Requests whose engine answers are fixed in advance, followed at any time by
\* CSV downloads.
CsvInit ==
    /\ \E rq \in CsvPageRequests :
          /\ state = create_initial_state(rq[1], rq[2])
          /\ engine_script \in ExecScripts(rq[2])
    /\ pc = "sql_generator"
    /\ steps = 0
    /\ prev = "START"
    /\ gen_count = 0
    /\ only_invalid = TRUE
    /\ engine_log = {}
    /\ tool_loops = 0
    /\ retry_loops = 0
    /\ responder_runs = 0
    /\ tool_raised = FALSE
    /\ fetch_call = <<>>
    /\ ServiceInit
    /\ streaming = FALSE

CsvNext ==
    \/ ScriptedGenerateText
    \/ ScriptedGenerateToolCall
    \/ ScriptedValidator
    \/ ScriptedExecutor
    \/ ScriptedToolExecutor
    \/ Tick
    \/ DownloadCsv

CsvSpec == CsvInit /\ [][CsvNext]_vars

(* ------------------------------------------------ the exploration sub-loop *)
\* A request in which the LLM keeps asking for explore_column_values, with
\* table and column names of every kind: known, schema-qualified, unknown,
\* and not an identifier at all.
MaxExplores == 2

ExploreTables == {"aws_ec2", "public.aws_ec2", "users", "users; DROP TABLE"}
ExploreColumns == {"engine", "nonexistent_column", "id; DROP TABLE"}

ExploreCalls(n) ==
    {[id |-> "call_" \o ToString(n), name |-> "explore_column_values",
      args |-> [NoArgs EXCEPT !.table_name = t, !.column_name = c]] :
        t \in ExploreTables, c \in ExploreColumns}

\* What the database answers to the value query: a column the table does not
\* have makes the query fail.
ExploreAnswers(args) ==
    IF args.column_name \in get_known_columns(normalize_table_name(args.table_name))
    THEN ExploreDb
    ELSE {[ok |-> FALSE, values |-> <<>>]}

ExploreInit == RequestInit /\ streaming = FALSE

ExploreFrame == UNCHANGED <<only_invalid, retry_loops, responder_runs, fetch_call,
                            engine_script, events>>

GenerateExploreFrom(calls) ==
    /\ pc = "sql_generator"
    /\ gen_count < MaxExplores
    /\ Step("sql_generator")
    /\ \E call \in calls :
          state' = sql_generator_node(state, [tool_calls |-> <<call>>, content |-> NoContent])
    /\ pc' = should_validate_or_respond(state')
    /\ gen_count' = gen_count + 1
    /\ UNCHANGED <<engine_log, tool_loops, tool_raised>>
    /\ ExploreFrame /\ CacheFrame /\ IdleFrame

GenerateExplore == GenerateExploreFrom(ExploreCalls(gen_count + 1))

ExploreToolExecutor ==
    /\ pc = "tool_executor"
    /\ Step("tool_executor")
    /\ LET call == state.pending_tool_call[1]
       IN  \E catalog \in Catalog, db \in ExploreAnswers(call.args) :
              LET outcome == explore_column_values(call.args, catalog, db)
              IN  /\ state' = tool_executor_node(state, outcome)
                  /\ tool_raised' = outcome.raised
                  /\ engine_log' = engine_log \cup
                                       explore_column_values_sent(call.args, catalog)
    /\ pc' = route_after_tool_execution(state')
    /\ tool_loops' = IF pc' = "sql_generator" THEN tool_loops + 1 ELSE tool_loops
    /\ UNCHANGED gen_count
    /\ ExploreFrame /\ CacheFrame /\ IdleFrame

ExploreNext ==
    \/ Retrieval
    \/ GenerateExplore
    \/ ExploreToolExecutor

ExploreSpec == ExploreInit /\ [][ExploreNext]_vars

(* ------------------------------------------- several requests of one session *)
\* The graph is compiled with the session's checkpointer and every request
\* runs it under the same thread_id: the checkpoint a finished request left
\* is updated with the request's input state, channel by channel. messages
\* is the only channel with a reducer (add_messages); every other channel
\* takes the input's value.
MaxRequests == 2

\* Mutant: tool_results is reduced by appending, like messages.
resume_from_checkpoint_appends_tool_results(checkpoint, input) ==
    [input EXCEPT !.messages = checkpoint.messages \o input.messages,
                  !.tool_results = checkpoint.tool_results \o input.tool_results]

resume_from_checkpoint(checkpoint, input) ==
    [input EXCEPT !.messages = checkpoint.messages \o input.messages]

\* Plain SQL answers of the LLM in these requests: one valid, one that fails
\* validation and is retried.
SessionSql == {"SELECT * FROM aws_ec2 LIMIT 10", "SELEC id FROM aws_ec2"}

GenerateSql ==
    /\ pc = "sql_generator"
    /\ gen_count < MaxExplores
    /\ Step("sql_generator")
    /\ \E sql \in SessionSql :
          state' = sql_generator_node(state,
                      [tool_calls |-> <<>>,
                       content |-> [marker |-> "", sql |-> sql, text |-> "explanation"]])
    /\ pc' = should_validate_or_respond(state')
    /\ gen_count' = gen_count + 1
    /\ UNCHANGED <<engine_log, tool_loops, tool_raised>>
    /\ ExploreFrame /\ CacheFrame /\ IdleFrame

\* The LLM asks for the values of a column the catalog knows.
GenerateKnownExplore ==
    GenerateExploreFrom({c \in ExploreCalls(gen_count + 1) :
                            c.args.table_name = "aws_ec2" /\ c.args.column_name = "engine"})

\* The next request of the session arrives after the previous one ended.
NextRequest ==
    /\ pc = "END"
    /\ responder_runs < MaxRequests
    /\ \E rq \in PageRequests :
          state' = resume_from_checkpoint(state, create_initial_state(rq[1], rq[2]))
    /\ pc' = "retrieval"
    /\ steps' = 0
    /\ prev' = "START"
    /\ gen_count' = 0
    /\ only_invalid' = TRUE
    /\ tool_raised' = FALSE
    /\ fetch_call' = <<>>
    /\ tool_loops' = 0
    /\ retry_loops' = 0
    /\ UNCHANGED <<engine_log, responder_runs, engine_script, events>>
    /\ CacheFrame /\ IdleFrame

SessionRunInit == RequestInit /\ streaming = FALSE

SessionRunNext ==
    \/ Retrieval
    \/ GenerateKnownExplore
    \/ GenerateSql
    \/ Validator
    \/ IncrementRetry
    \/ Executor
    \/ ExploreToolExecutor
    \/ Responder
    \/ NextRequest

SessionRunSpec == SessionRunInit /\ [][SessionRunNext]_vars

(* ------------------------------------------------- the validator, repeatedly *)
\* validator_node run again and again, each time on the state of a request
\* whose sql_generator produced one of the candidate strings, while the known
\* tables stay the same and the catalog lookup answers or raises.
MaxValidations == 3

PipelineFrame == UNCHANGED <<state, pc, steps, prev, gen_count, only_invalid, engine_log,
                             tool_loops, retry_loops, responder_runs, tool_raised,
                             fetch_call, engine_script, streaming, events>>
ServiceFrame == UNCHANGED <<cache, clock, tokens_issued, store_log, handlers, lock,
                            get_result, csv_sent, csv_reply>>

validation_record(sql, s) ==
    [sql |-> sql, is_valid |-> s.is_valid, errors |-> s.validation_errors,
     special_response_type |-> s.special_response_type]

ValidateInit == NoRequest /\ ServiceInit

RunValidator ==
    /\ Len(validations) < MaxValidations
    /\ \E sql \in SqlStrings, catalog \in Catalog :
          LET s == [create_initial_state(1, 2) EXCEPT !.generated_sql = sql]
          IN  validations' = Append(validations,
                                    validation_record(sql, validator_node(s, catalog)))
    /\ PipelineFrame /\ ServiceFrame
    /\ UNCHANGED <<sessions, session_log>>

ValidateNext == RunValidator

ValidateSpec == ValidateInit /\ [][ValidateNext]_vars

(* ---------------------------------------------- the in-memory session store *)
\* SessionManager without MongoDB (_sessions_collection is None): the dict
\* _sessions and the four calls on it, awaited one after another. The two
\* timestamps of a session are left out; session_id and message_count are kept.
MaxCalls == 4

SessionIds == {"test-1", "test-2"}

NoSession == [session_id |-> NoneStr, message_count |-> NoneInt]

\* d[key] = value on a dict modelled as a function.
dict_set(d, key, value) ==
    [k \in DOMAIN d \cup {key} |-> IF k = key THEN value ELSE d[k]]

\* del d[key]
dict_del(d, key) == [k \in DOMAIN d \ {key} |-> d[k]]

\* Each call: the dict it leaves and the value it returns.
create_session(ss, session_id) ==
    LET session == [session_id |-> session_id, message_count |-> 0]
    IN  [sessions |-> dict_set(ss, session_id, session), result |-> session]

get_session(ss, session_id) ==
    [sessions |-> ss,
     result |-> IF session_id \in DOMAIN ss THEN ss[session_id] ELSE NoSession]

\* Mutant: an unknown id is inserted with its first message counted.
update_session_upsert(ss, session_id) ==
    [sessions |-> IF session_id \in DOMAIN ss
                  THEN [ss EXCEPT ![session_id].message_count = @ + 1]
                  ELSE dict_set(ss, session_id,
                                [session_id |-> session_id, message_count |-> 1]),
     result |-> NoneStr]

update_session(ss, session_id) ==
    [sessions |-> IF session_id \in DOMAIN ss
                  THEN [ss EXCEPT ![session_id].message_count = @ + 1]
                  ELSE ss,
     result |-> NoneStr]

delete_session(ss, session_id) ==
    IF session_id \in DOMAIN ss
    THEN [sessions |-> dict_del(ss, session_id), result |-> TRUE]
    ELSE [sessions |-> ss, result |-> FALSE]

SessionInit == NoRequest /\ ServiceInit

SessionCall(op, session_id, after) ==
    /\ Len(session_log) < MaxCalls
    /\ sessions' = after.sessions
    /\ session_log' = Append(session_log,
                             [op |-> op, id |-> session_id, result |-> after.result])
    /\ PipelineFrame /\ ServiceFrame
    /\ UNCHANGED validations

CreateSession ==
    \E id \in SessionIds : SessionCall("create_session", id, create_session(sessions, id))

GetSession ==
    \E id \in SessionIds : SessionCall("get_session", id, get_session(sessions, id))

UpdateSession ==
    \E id \in SessionIds : SessionCall("update_session", id, update_session(sessions, id))

DeleteSession ==
    \E id \in SessionIds : SessionCall("delete_session", id, delete_session(sessions, id))

SessionNext ==
    \/ CreateSession
    \/ GetSession
    \/ UpdateSession
    \/ DeleteSession

SessionSpec == SessionInit /\ [][SessionNext]_vars

(* ================================================================ claims *)
ShortCircuitTypes == {"OUT_OF_SCOPE", "READ_ONLY"}

\* C1: the pipeline runs finitely many stages: the sql_generator/tool_executor
\* loop repeats at most MAX_EXPLORATIONS times and the sql_generator/validator
\* loop at most MAX_RETRIES times, whatever the stage outcomes.
C1_LoopsBounded ==
    tool_loops <= MAX_EXPLORATIONS /\ retry_loops <= MAX_RETRIES

\* C2: 0 <= retry_count <= MAX_RETRIES in every state; retry_count changes
\* only in increment_retry, by +1, directly after a validator run that left
\* is_valid = false.
C2_Range == state.retry_count \in 0..MAX_RETRIES
C2_Step ==
    state'.retry_count /= state.retry_count =>
        /\ state'.retry_count = state.retry_count + 1
        /\ pc = "increment_retry" /\ prev' = "increment_retry"
        /\ prev = "validator" /\ ~state.is_valid
C2_RetryCount == []C2_Range /\ [][C2_Step]_vars
C2_Witness ==
    state.retry_count = MAX_RETRIES /\ prev = "increment_retry" /\ pc = "responder"

\* C3: 0 <= exploration_count <= MAX_EXPLORATIONS in every state, and
\* exploration_count never decreases.
C3_Range == state.exploration_count \in 0..MAX_EXPLORATIONS
C3_Step == state'.exploration_count >= state.exploration_count
C3_ExplorationCount == []C3_Range /\ [][C3_Step]_vars
C3_Witness ==
    state.exploration_count = MAX_EXPLORATIONS /\ prev = "tool_executor" /\ pc = "responder"

\* C4: when every generation of a request is plain SQL that fails validation,
\* the request ends after exactly MAX_RETRIES + 1 = 3 sql_generator invocations.
C4_ThreeGenerations ==
    (pc = "END" /\ only_invalid) => gen_count = MAX_RETRIES + 1

\* C5: once sql_generator yields OUT_OF_SCOPE or READ_ONLY the next stage is
\* responder: no validator, executor or tool run follows, nothing is sent to
\* the engine, retry_count is not incremented and executed stays false.
C5_Inv ==
    state.special_response_type \in ShortCircuitTypes =>
        /\ pc \in {"responder", "END"}
        /\ ~state.executed
        /\ engine_log = {}
C5_Step ==
    (state.special_response_type \in ShortCircuitTypes /\ pc = "responder") =>
        /\ prev' = "responder"
        /\ state'.retry_count = state.retry_count
        /\ ~state'.executed
C5_ShortCircuit == []C5_Inv /\ [][C5_Step]_vars
C5_Witness ==
    /\ state.special_response_type = "READ_ONLY"
    /\ prev = "responder" /\ pc = "END" /\ state.retry_count = 0

\* C6: once validator has set RESOURCE_NOT_FOUND, sql_generator is not invoked
\* again whatever retry_count is: the request goes through increment_retry to
\* responder, and executor does not run.
C6_Inv ==
    state.special_response_type = "RESOURCE_NOT_FOUND" =>
        /\ pc \in {"increment_retry", "responder", "END"}
        /\ ~state.executed
        /\ prev = "validator" => pc = "increment_retry"
        /\ prev = "increment_retry" => pc = "responder"
C6_Step ==
    state.special_response_type = "RESOURCE_NOT_FOUND" =>
        /\ gen_count' = gen_count
        /\ prev' \in {"increment_retry", "responder"}
        /\ state'.special_response_type = "RESOURCE_NOT_FOUND"
C6_NoRetryOnNotFound == []C6_Inv /\ [][C6_Step]_vars
C6_Witness ==
    /\ state.special_response_type = "RESOURCE_NOT_FOUND"
    /\ prev = "increment_retry" /\ state.retry_count < MAX_RETRIES
    /\ pc = "responder" /\ engine_log = {}

\* C7: every SQL string sent to the query engine was accepted by validate_sql
\* and references only known tables; a statement with a prohibited keyword
\* ends with executed = false.
C7_OnlyValidatedSqlSent ==
    /\ \A q \in engine_log :
          validate_sql(q).is_valid /\ SqlInfo(q).tables \subseteq KnownTables
    /\ (state.generated_sql /= NoneStr /\ SqlInfo(state.generated_sql).kw /= "")
          => ~state.executed

\* C8: executed = true implies is_valid = true, in every state.
C8_ExecutedImpliesValid == state.executed => state.is_valid
C8_Witness == state.executed /\ prev = "tool_executor"

\* C9: a non-null special_response_type implies executed = false, in every state.
C9_SpecialImpliesNotExecuted ==
    state.special_response_type /= NoneStr => ~state.executed
C9_Witness ==
    state.special_response_type = "RESOURCE_NOT_FOUND" /\ prev = "executor"

\* C10 (as stated): natural_language_response is null in every state before
\* responder has run.
C10_NullBeforeResponder ==
    responder_runs = 0 => state.natural_language_response = NoneStr

\* C10 (amended): before responder runs natural_language_response is null
\* unless sql_generator returned an OUT_OF_SCOPE / READ_ONLY marker, whose
\* message it stores; no other stage writes the field; responder runs at most
\* once and a finished request has a non-null response.
C10_Inv ==
    /\ (responder_runs = 0 /\ state.special_response_type \notin ShortCircuitTypes)
          => state.natural_language_response = NoneStr
    /\ responder_runs <= 1
    /\ pc = "END" => (responder_runs = 1 /\ state.natural_language_response /= NoneStr)
C10_Step ==
    state'.natural_language_response /= state.natural_language_response =>
        \/ prev' = "responder"
        \/ prev' = "sql_generator" /\ state'.special_response_type \in ShortCircuitTypes
C10_ResponseWriters == []C10_Inv /\ [][C10_Step]_vars
C10_Witness ==
    /\ pc = "END" /\ state.special_response_type = "OUT_OF_SCOPE"
    /\ state.natural_language_response = "I can only help with cloud resources"

\* Last record of tool_results (only read where the list is non-empty).
LastToolResult == state.tool_results[Len(state.tool_results)]

\* C11 (as stated, last clause): a failed tool execution never triggers
\* another SQL generation.
C11_FailedToolNeverRegenerates ==
    (prev = "tool_executor" /\ state.tool_results /= <<>> /\ ~LastToolResult.success)
        => pc /= "sql_generator"

\* C11 (amended): after tool_executor the next stage is sql_generator exactly
\* when the tool just dispatched was explore_column_values and the updated
\* exploration_count is below MAX_EXPLORATIONS, otherwise responder; a failed
\* execute_sql_query call and an unknown tool never lead to another generation.
C11_Step ==
    pc = "tool_executor" =>
        LET call == state.pending_tool_call[1]
        IN  /\ pc' \in {"sql_generator", "responder"}
            /\ pc' = "sql_generator" <=>
                   (call.name = "explore_column_values"
                    /\ state'.exploration_count < MAX_EXPLORATIONS)
            /\ call.name /= "explore_column_values" => pc' = "responder"
C11_RouteAfterTool == [][C11_Step]_vars
C11_Witness ==
    /\ prev = "tool_executor" /\ pc = "sql_generator"
    /\ LastToolResult.tool_name = "explore_column_values"
    /\ ~LastToolResult.success
    /\ state.exploration_count = 2

\* C12: a state whose special_response_type is NEEDS_CLARIFICATION is routed
\* to responder by should_validate_or_respond when no tool call is pending,
\* and by should_retry whatever is_valid and retry_count are.
C12_ClarificationToResponder ==
    state.special_response_type = "NEEDS_CLARIFICATION" =>
        /\ (prev = "should_validate_or_respond" /\ state.pending_tool_call = <<>>)
               => pc = "responder"
        /\ prev = "should_retry" => pc = "responder"

\* Records of tool_results after the step / before the step.
NewToolResult == state'.tool_results[Len(state'.tool_results)]
AppendsOneRecord ==
    /\ Len(state'.tool_results) = Len(state.tool_results) + 1
    /\ SubSeq(state'.tool_results, 1, Len(state.tool_results)) = state.tool_results

\* C13: pending_tool_call is non-null only between a sql_generator run that
\* requested a tool and the tool_executor run that follows it: it is null
\* whenever any other stage is about to run, tool_executor clears it on every
\* outcome, and of several tool calls in one response only the first is
\* dispatched.
C13_Inv ==
    /\ Len(state.pending_tool_call) <= 1
    /\ state.pending_tool_call /= <<>> =>
          /\ pc = "tool_executor" /\ prev = "sql_generator"
          /\ state.pending_tool_call[1] = state.tool_calls[1]
    /\ \A i \in 1..Len(state.tool_results) : \A n \in 1..MaxSteps :
          state.tool_results[i].tool_call_id /= ExtraCall(n).id
C13_Step ==
    pc = "tool_executor" =>
        /\ state'.pending_tool_call = <<>>
        /\ NewToolResult.tool_call_id = state.tool_calls[1].id
C13_PendingToolCall == []C13_Inv /\ [][C13_Step]_vars
C13_Witness ==
    /\ prev = "tool_executor" /\ tool_raised
    /\ state.pending_tool_call = <<>>
    /\ Len(state.tool_calls) = 2

\* C14: tool_results is append-only: every tool_executor run appends exactly
\* one record carrying the id and name of the pending call and keeps the
\* earlier records in order; no other stage changes the list.
C14_Step ==
    /\ pc = "tool_executor" =>
          /\ AppendsOneRecord
          /\ NewToolResult.tool_call_id = state.pending_tool_call[1].id
          /\ NewToolResult.tool_name = state.pending_tool_call[1].name
    /\ pc /= "tool_executor" => state'.tool_results = state.tool_results
C14_AppendOnly == [][C14_Step]_vars
C14_Witness ==
    /\ Len(state.tool_results) = 3
    /\ state.tool_results[1].tool_name = "explore_column_values"
    /\ state.tool_results[2].tool_name = "explore_column_values"
    /\ state.tool_results[3].tool_name = "unknown_tool"
    /\ state.tool_results[1].tool_call_id /= state.tool_results[2].tool_call_id

\* C15: for a pending call naming an unregistered tool, tool_executor appends
\* one failed record whose error names the tool, clears pending_tool_call,
\* leaves every other state field unchanged, and the pipeline goes to responder.
C15_Step ==
    (pc = "tool_executor" /\ state.pending_tool_call[1].name \notin TOOL_REGISTRY) =>
        /\ AppendsOneRecord
        /\ ~NewToolResult.success
        /\ NewToolResult.error = "Unknown tool: " \o state.pending_tool_call[1].name
        /\ state'.pending_tool_call = <<>>
        /\ \A f \in DOMAIN state \ {"tool_results", "pending_tool_call"} :
              state'[f] = state[f]
        /\ pc' = "responder"
C15_UnknownTool == [][C15_Step]_vars
C15_Witness ==
    /\ prev = "tool_executor" /\ pc = "responder"
    /\ LastToolResult.tool_name = "unknown_tool"
    /\ state.exploration_count = 1 /\ state.discovered_values /= {}
    /\ state.execution_error = NoneStr

\* C16: an exception raised by a tool handler is captured by tool_executor:
\* exactly one record with success = false and the error text is appended,
\* pending_tool_call is cleared, and the pipeline continues with the next
\* stage instead of ending with a top-level error.
C16_Step ==
    (pc = "tool_executor" /\ tool_raised') =>
        /\ AppendsOneRecord
        /\ ~NewToolResult.success
        /\ NewToolResult.error \in DbErrors \cup CountErrors \cup {"vector store unavailable"}
        /\ state'.execution_error = NewToolResult.error
        /\ state'.pending_tool_call = <<>>
        /\ pc' \in {"sql_generator", "responder"}
C16_ExceptionCaptured == [][C16_Step]_vars
C16_Witness ==
    /\ tool_raised /\ prev = "tool_executor" /\ pc = "responder"
    /\ LastToolResult.tool_name = "execute_sql_query"
    /\ LastToolResult.error = "connection lost"

\* C17: every dispatch of explore_column_values, whatever its outcome,
\* increments exploration_count and appends one record to exploration_queries,
\* so exploration_count equals the number of exploration dispatches.
C17_CountEqualsDispatches ==
    LET dispatched == {i \in 1..Len(state.tool_results) :
                          state.tool_results[i].tool_name = "explore_column_values"}
    IN  /\ state.exploration_count = Cardinality(dispatched)
        /\ Len(state.exploration_queries) = Cardinality(dispatched)

\* Values a tool result carries, as the list of value strings.
ResultValues(res) == [i \in 1..Len(res.values) |-> res.values[i].value]

\* C18 (as stated): after every successful explore_column_values call on
\* (table, column), discovered_values holds the returned values under the key
\* "table.column".
C18_SuccessStoresValues ==
    (prev = "tool_executor" /\ ~tool_raised /\ state.tool_results /= <<>>
     /\ LastToolResult.tool_name = "explore_column_values" /\ LastToolResult.success) =>
        LET res == LastToolResult.result[1]
        IN  \E e \in state.discovered_values :
               /\ e.key = res.table \o "." \o res.column
               /\ e.values.values = ResultValues(res)

\* C18 (amended): after a successful explore_column_values call that returned
\* at least one value, discovered_values holds exactly those values under
\* "table.column" and the other keys are unchanged; after a successful call
\* without values, a failure result or a raised exception discovered_values is
\* unchanged; no other stage changes it, so the next sql_generator invocation
\* of the request sees the stored values.
C18_Step ==
    /\ (pc = "tool_executor" /\ ~tool_raised'
        /\ state.pending_tool_call[1].name = "explore_column_values") =>
          LET res == NewToolResult.result[1]
              key == res.table \o "." \o res.column
          IN  IF res.success /\ res.values /= <<>>
              THEN /\ \E e \in state'.discovered_values : e.key = key
                   /\ \A e \in state'.discovered_values :
                         e.key = key => e.values.values = ResultValues(res)
                   /\ {e \in state'.discovered_values : e.key /= key}
                         = {e \in state.discovered_values : e.key /= key}
              ELSE state'.discovered_values = state.discovered_values
    /\ (pc /= "tool_executor" \/ tool_raised'
        \/ state.pending_tool_call[1].name /= "explore_column_values") =>
          state'.discovered_values = state.discovered_values
C18_Inv ==
    (pc = "sql_generator" /\ prev = "tool_executor" /\ ~tool_raised
     /\ LastToolResult.success /\ LastToolResult.result[1].values /= <<>>) =>
        LET res == LastToolResult.result[1]
        IN  /\ \E e \in state.discovered_values :
                  /\ e.key = res.table \o "." \o res.column
                  /\ e.values.values = ResultValues(res)
            /\ state.exploration_queries[Len(state.exploration_queries)].values
                  = ResultValues(res)
C18_DiscoveredValues == []C18_Inv /\ [][C18_Step]_vars
C18_Witness ==
    /\ pc = "sql_generator" /\ prev = "tool_executor"
    /\ Cardinality(state.discovered_values) = 2
    /\ LastToolResult.success

\* Top-level execution fields a later stage reads.
ExecutionFields == {"is_valid", "executed", "results", "row_count", "columns",
                    "total_count", "has_more_results", "execution_error",
                    "special_response_type", "csv_available"}

\* State the tool path leaves for the request (sql, page, page_size) under the
\* scripted answers: sql_generator returning the tool call, then tool_executor.
ToolPathState(sql, page, page_size, script) ==
    LET call == [id |-> "call_1", name |-> "execute_sql_query",
                 args |-> [NoArgs EXCEPT !.sql = sql, !.page = page, !.page_size = page_size]]
        generated == sql_generator_node(create_initial_state(page, page_size),
                                        [tool_calls |-> <<call>>, content |-> NoContent])
    IN  tool_executor_node(generated,
                           execute_sql_query(call.args, script.catalog, script.count,
                                             script.fetch))

\* C19: for the same SQL, page, page_size and engine answers, the executor
\* stage and the execute_sql_query tool leave the same values in the
\* top-level execution fields.
C19_PathsAgree ==
    (prev = "executor" /\ pc = "responder") =>
        \A f \in ExecutionFields :
            state[f] = ToolPathState(state.generated_sql, state.page, state.page_size,
                                     engine_script)[f]

\* C20 (as stated): for every page >= 1 and page_size in 1..500 the offset
\* passed to the paginated fetch is (page - 1) * page_size on both paths.
C20_OffsetFormula ==
    fetch_call /= <<>> =>
        /\ fetch_call[1].offset = (state.page - 1) * state.page_size
        /\ fetch_call[1].offset >= 0

\* C20 (amended): the offset is (page - 1) * page_size on the executor path
\* and (min(page, 10000) - 1) * page_size on the tool path, which caps the
\* page number at 10000; it is never negative.
C20_OffsetCapped ==
    fetch_call /= <<>> =>
        /\ fetch_call[1].offset >= 0
        /\ prev = "executor" =>
              fetch_call[1].offset = (state.page - 1) * state.page_size
        /\ prev = "tool_executor" =>
              fetch_call[1].offset =
                  ((IF state.page > 10000 THEN 10000 ELSE state.page) - 1) * state.page_size
C20_Witness ==
    /\ prev = "tool_executor"
    /\ state.page = 3 /\ state.page_size = 50
    /\ fetch_call = <<[offset |-> 100, limit |-> 50]>>

\* C21: after a successful execution on either path, has_more is true exactly
\* when total_count is known and offset + returned rows < total_count; with an
\* unknown total_count has_more is false.
C21_HasMore ==
    (state.executed /\ prev \in {"executor", "tool_executor"} /\ fetch_call /= <<>>) =>
        (state.has_more_results <=>
            (state.total_count /= NoneInt
             /\ fetch_call[1].offset + state.row_count < state.total_count))

\* C22: the cache never holds more than max_entries entries, whatever store
\* and get calls are made and whenever, also while no entry has expired.
C22_CacheBounded == Cardinality(DOMAIN cache) <= max_entries

StoredTokens == {r.token : r \in store_log}

\* Tokens returned or about to be returned by a store call.
DrawnTokens ==
    StoredTokens \cup {handlers[h].token : h \in {x \in Handlers : handlers[x].op = "store"}}

\* C23: get(store(sql, session_id)) returns the entry with that sql and
\* session_id while the entry is not older than the TTL; once it is older get
\* returns none and the entry is gone; get returns none for a token that was
\* never issued; no two store calls return the same token.
C23_Step ==
    get_result' /= get_result =>
        LET g == get_result'[1]
            stored == {r \in store_log : r.token = g.token}
        IN  /\ stored = {} => g.entry = NoEntry
            /\ \A r \in stored :
                  IF g.at - r.created_at > ttl_seconds
                  THEN g.entry = NoEntry /\ g.token \notin DOMAIN cache'
                  ELSE g.entry = [sql |-> r.sql, created_at |-> r.created_at,
                                  session_id |-> r.session_id]
C23_DistinctTokens ==
    /\ Cardinality(DrawnTokens) = tokens_issued
    /\ \A r1, r2 \in store_log : r1.token = r2.token => r1 = r2
C23_RoundTrip == []C23_DistinctTokens /\ [][C23_Step]_vars
C23_Witness ==
    /\ get_result /= <<>>
    /\ get_result[1].entry = NoEntry
    /\ get_result[1].token \in StoredTokens
    /\ \E r1, r2 \in store_log : r1.token /= r2.token /\ r1.sql = r2.sql
    /\ \E t \in DOMAIN cache : clock - cache[t].created_at = ttl_seconds

\* C24: under any interleaving of the handlers' store and get calls no stored
\* entry is lost or overwritten by another store, every token keeps the
\* (sql, session_id) it was stored with, and get never returns an entry older
\* than the TTL.
C24_ConcurrentSafe ==
    /\ \A r \in store_log :
          /\ ~is_expired(r, clock) => r.token \in DOMAIN cache
          /\ r.token \in DOMAIN cache =>
                cache[r.token] = [sql |-> r.sql, created_at |-> r.created_at,
                                  session_id |-> r.session_id]
    /\ \A t \in DOMAIN cache : t \in StoredTokens
    /\ (get_result /= <<>> /\ get_result[1].entry /= NoEntry) =>
          get_result[1].at - get_result[1].entry.created_at <= ttl_seconds
C24_Witness ==
    /\ lock = "h1"
    /\ handlers["h1"].op = "store"
    /\ handlers["h2"].op = "get"
    /\ handlers["h2"].token \in DOMAIN cache
    /\ get_result /= <<>> /\ get_result[1].entry /= NoEntry

\* C25: every SQL string in the cache passed validation and was executed
\* successfully by the request that stored it, on the executor path and on
\* the tool path; the CSV export runs only SQL read from the cache, and a
\* request with an unknown or expired token is rejected with nothing sent to
\* the database.
C25_Inv ==
    /\ \A t \in DOMAIN cache :
          /\ validate_sql(cache[t].sql).is_valid
          /\ cache[t].sql \in engine_log
    /\ \A q \in csv_sent : \E r \in store_log : r.sql = q.sql
C25_Step ==
    /\ (DOMAIN cache' \ DOMAIN cache /= {}) =>
          /\ prev' \in {"executor", "tool_executor"}
          /\ state'.executed
          /\ DOMAIN cache' \ DOMAIN cache = {state'.query_token}
          /\ cache'[state'.query_token].sql = state'.generated_sql
          /\ validate_sql(state'.generated_sql).is_valid
          /\ state'.generated_sql \in engine_log'
    /\ \A q \in csv_sent' \ csv_sent :
          \E t \in DOMAIN cache : ~is_expired(cache[t], clock) /\ cache[t].sql = q.sql
    /\ (get_result' /= get_result /\ get_result'[1].entry = NoEntry) =>
          csv_reply' = 400 /\ csv_sent' = csv_sent
C25_OnlyExecutedSql == []C25_Inv /\ [][C25_Step]_vars
C25_Witness ==
    /\ csv_sent /= {}
    /\ csv_reply = 400
    /\ get_result[1].token \in StoredTokens
    /\ prev = "tool_executor"

\* C26: a failing context-retriever search leaves empty context and the
\* pipeline continues to sql_generator; it never aborts the request.
C26_RetrievalContinues == prev = "retrieval" => pc = "sql_generator"

\* The streamed request is over: done was sent, a node raised, or the handler
\* raised before its try block.
StreamOver == pc \in {"closed", "error", "crashed"}

TerminalEvents == {"done", "error"}

\* C27: every streamed request ends with exactly one terminal event, done or
\* error, which is the last event; a request in which a stage raised ends
\* with error and never emits done.
C27_OneTerminalEvent ==
    /\ \A i \in 1..Len(events) : events[i].type \in TerminalEvents => i = Len(events)
    /\ StreamOver => (events /= <<>> /\ events[Len(events)].type \in TerminalEvents)
    /\ pc = "error" => events[Len(events)].type = "error"

\* Events of the given type and step among the first n.
CountEvents(type, step, n) ==
    Cardinality({j \in 1..n : events[j].type = type /\ events[j].step = step})

\* C28: every step_completed event is preceded by a step_started event of the
\* same stage that no earlier step_completed already matched.
C28_StartedBeforeCompleted ==
    \A i \in 1..Len(events) :
        events[i].type = "step_completed" =>
            CountEvents("step_started", events[i].step, i - 1)
                >= CountEvents("step_completed", events[i].step, i)

\* Concatenation of the content of the token events.
RECURSIVE TokenText(_)
TokenText(evs) ==
    IF evs = <<>> THEN ""
    ELSE (IF Head(evs).type = "token" THEN Head(evs).content ELSE "") \o TokenText(Tail(evs))

\* The answer the non-streaming mode returns for a final state.
query_response(s) == s.natural_language_response

\* C29: for the same final state the token events of the streamed request
\* concatenate to the natural_language_response the non-streaming mode
\* returns.
C29_SameFinalAnswer ==
    pc = "closed" => TokenText(events) = query_response(state)

\* C30 (as stated): responder returns the template of the special type when
\* one is set, the no-results template after an execution with zero rows,
\* and an LLM answer in every other state.
C30_TemplateOrLlm ==
    (prev = "responder" /\ pc = "END") =>
        state.natural_language_response =
            IF state.special_response_type /= NoneStr
            THEN RESPONSE_TEMPLATES(state.special_response_type)
            ELSE IF state.executed /\ state.results = 0
            THEN RESPONSE_TEMPLATES("NO_RESULTS")
            ELSE "llm answer"

\* C30 (amended): with a special type set responder makes no LLM call and
\* returns the text sql_generator stored with the marker when that text is
\* not empty, otherwise the template of the special type; after an execution
\* with zero rows it returns the no-results template without an LLM call; in
\* every other state it returns the LLM's answer, and only there can the LLM
\* call fail.
C30_Step ==
    /\ (pc = "responder" /\ pc' = "END") =>
          state'.natural_language_response =
              IF state.special_response_type /= NoneStr
              THEN IF state.natural_language_response \notin {NoneStr, ""}
                   THEN state.natural_language_response
                   ELSE RESPONSE_TEMPLATES(state.special_response_type)
              ELSE IF state.executed /\ state.results = 0
              THEN RESPONSE_TEMPLATES("NO_RESULTS")
              ELSE "llm answer"
    /\ (pc = "responder" /\ pc' = "error") =>
          /\ state.special_response_type = NoneStr
          /\ ~(state.executed /\ state.results = 0)
C30_StoredTextOrTemplate == [][C30_Step]_vars
C30_Witness ==
    /\ prev = "responder" /\ pc = "END"
    /\ state.special_response_type = "OUT_OF_SCOPE"
    /\ state.natural_language_response = "I can only help with cloud resources"


\* C31: when the validator sets RESOURCE_NOT_FOUND because the SQL references
\* the unknown table users, the final response is the message that names
\* users (the text placed in validation_errors), not only a generic sentence.
C31_ResponseNamesTable ==
    (/\ prev = "responder" /\ pc = "END"
     /\ state.special_response_type = "RESOURCE_NOT_FOUND"
     /\ \E i \in DOMAIN state.validation_errors :
            state.validation_errors[i] = table_error_message({"users"}))
    => state.natural_language_response = table_error_message({"users"})

\* C32: after executor ends a failed fetch, executed is false, the result
\* fields and the query token are null, has_more_results is false, and
\* special_response_type is RESOURCE_NOT_FOUND only when the database error
\* was a table-not-found error; every other error leaves it null.
C32_OnlyTableNotFound ==
    (prev = "executor" /\ ~state.executed) =>
        /\ state.results = NoneInt /\ state.row_count = NoneInt
        /\ state.columns = NoneStr /\ state.total_count = NoneInt
        /\ state.query_token = NoneStr /\ ~state.has_more_results
        /\ state.special_response_type \in {NoneStr, "RESOURCE_NOT_FOUND"}
        /\ state.special_response_type = "RESOURCE_NOT_FOUND" =>
              state.execution_error =
                  make_user_friendly_error("relation \"users\" does not exist")[1]

C34_NoQueryUnlessKnown ==
    /\ engine_log \subseteq
          UNION {{explore_sql(t, c) : c \in get_known_columns(t)} : t \in KnownTables}
    /\ \A i \in DOMAIN state.tool_results :
          ~state.tool_results[i].success => state.tool_results[i].error /= NoneStr

\* C35: validation has no hidden state: two validator runs on the same SQL
\* string, with the known tables unchanged, report the same is_valid, errors
\* and special_response_type, whatever was validated in between.
C35_SameStringSameResult ==
    \A i, j \in DOMAIN validations :
        validations[i].sql = validations[j].sql => validations[i] = validations[j]

\* Position of the last call op(id) among the first n calls (0: none).
LastCall(op, id, n) ==
    LET at == {k \in 1..n : session_log[k].op = op /\ session_log[k].id = id}
    IN  IF at = {} THEN 0 ELSE CHOOSE k \in at : \A m \in at : m <= k

\* id was created among the first n calls and not deleted since.
Alive(id, n) ==
    LastCall("create_session", id, n) > LastCall("delete_session", id, n)

\* update_session(id) calls among the first n calls since id's last creation.
UpdatesSinceCreation(id, n) ==
    Cardinality({k \in (LastCall("create_session", id, n) + 1)..n :
                    session_log[k].op = "update_session" /\ session_log[k].id = id})

\* C36: over any sequence of calls on the in-memory session store,
\* get_session returns a session exactly when it was created and not deleted
\* since, a new session has message_count 0, message_count is the number of
\* update_session calls since creation, update_session on an unknown id
\* creates nothing, and delete_session returns true exactly when the session
\* existed.
C36_SessionStore ==
    /\ DOMAIN sessions = {id \in SessionIds : Alive(id, Len(session_log))}
    /\ \A id \in DOMAIN sessions :
          sessions[id] = [session_id |-> id,
                          message_count |-> UpdatesSinceCreation(id, Len(session_log))]
    /\ \A n \in DOMAIN session_log :
          LET call == session_log[n]
          IN  /\ call.op = "create_session" =>
                    call.result = [session_id |-> call.id, message_count |-> 0]
              /\ call.op = "get_session" =>
                    call.result = IF Alive(call.id, n - 1)
                                  THEN [session_id |-> call.id,
                                        message_count |->
                                            UpdatesSinceCreation(call.id, n - 1)]
                                  ELSE NoSession
              /\ call.op = "delete_session" => call.result = Alive(call.id, n - 1)
C36_Witness ==
    /\ Len(session_log) = 4
    /\ session_log[1].op = "update_session" /\ session_log[1].id = "test-1"
    /\ session_log[2].op = "create_session" /\ session_log[2].id = "test-1"
    /\ session_log[3].op = "update_session" /\ session_log[3].id = "test-1"
    /\ session_log[4].op = "get_session" /\ session_log[4].id = "test-1"
    /\ session_log[4].result.message_count = 1

\* C37: a request adds to the conversation history exactly one user message
\* (the question) followed by one assistant message (the final response),
\* however many retries and exploration loops it goes through.
C37_OneUserOneAssistant ==
    pc = "END" => state.messages = <<"human", "ai">>

\* C38: every request starts with retry_count = 0, exploration_count = 0,
\* empty tool_results, exploration_queries and discovered_values, no pending
\* tool call and executed = false, also when the previous request of the
\* session left other values in its checkpoint; only the conversation
\* history carries over.
C38_Inv ==
    pc = "retrieval" =>
        /\ state.retry_count = 0 /\ state.exploration_count = 0
        /\ state.tool_results = <<>> /\ state.exploration_queries = <<>>
        /\ state.discovered_values = {} /\ state.pending_tool_call = <<>>
        /\ ~state.executed
        /\ state = [create_initial_state(state.page, state.page_size)
                        EXCEPT !.messages = state.messages]
C38_Step ==
    (pc = "END" /\ pc' = "retrieval") => state'.messages = state.messages
C38_FreshCounters == []C38_Inv /\ [][C38_Step]_vars
\* Witness: the first request asked the question twice (one retry or one
\* exploration loop, so its checkpoint holds a non-zero counter) and the
\* second request starts from zero with the three messages of the first.
C38_Witness ==
    /\ pc = "retrieval" /\ responder_runs = 1
    /\ state.retry_count = 0 /\ state.exploration_count = 0
    /\ state.messages = <<"human", "human", "ai">>

\* C39: when responder starts, executed is true exactly when the stage that
\* ran just before was executor ending without an execution error or
\* tool_executor with a successful execute_sql_query call; a request that
\* reaches responder any other way has executed = false and no result rows.
C39_ExecutedIffJustExecuted ==
    pc = "responder" =>
        /\ state.executed <=>
              \/ prev = "executor" /\ state.execution_error = NoneStr
              \/ /\ prev = "tool_executor"
                 /\ state.tool_results /= <<>>
                 /\ LastToolResult.tool_name = "execute_sql_query"
                 /\ LastToolResult.success
        /\ ~state.executed => state.results = NoneInt /\ state.row_count = NoneInt
C39_Witness ==
    /\ pc = "responder" /\ prev = "tool_executor"
    /\ state.exploration_count = MAX_EXPLORATIONS
    /\ ~state.executed /\ state.results = NoneInt

\* The validation fields of a state.
ValidationFields(s) ==
    [is_valid |-> s.is_valid, errors |-> s.validation_errors,
     warnings |-> s.validation_warnings]

\* The validation fields validator_node produces for a SQL string.
ValidationsOf(sql) ==
    {ValidationFields(validator_node(
         [create_initial_state(1, 2) EXCEPT !.generated_sql = sql], catalog)) :
        catalog \in Catalog}

\* C40: whenever responder runs, is_valid, validation_errors and
\* validation_warnings describe the current generated_sql: they are the
\* result of validating it, or were set by a successful tool execution of it,
\* or nothing was validated since the request began or since sql_generator
\* answered with a marker; no result of an earlier attempt survives.
C40_ValidationIsCurrent ==
    pc = "responder" =>
        \/ ValidationFields(state) = ValidationFields(create_initial_state(1, 2))
        \/ ValidationFields(state) \in ValidationsOf(state.generated_sql)
        \/ /\ prev = "tool_executor" /\ state.executed
           /\ ValidationFields(state) =
                  [is_valid |-> TRUE, errors |-> <<>>, warnings |-> <<>>]

====
